---- MODULE Spec2Model ----
(***************************************************************************)
(* EnclaveFit personalization engine (EvaluationModel) as a state machine. *)
(*                                                                         *)
(* The engine is a set of static, side-effect free methods over a          *)
(* UserProfile.  A behaviour fixes one profile in its initial state and     *)
(* then calls engine methods on it in any order; `op` names the last        *)
(* method called and `result` holds the value it returned.                 *)
(*                                                                         *)
(* JavaScript numbers are modelled as exact rationals [n, d] in lowest      *)
(* terms (d > 0), extended with Infinity [1,0], -Infinity [-1,0] and NaN    *)
(* [0,0] for the unguarded division in assessLift.  A double computation    *)
(* agrees with the exact one except that a value lying exactly half way     *)
(* between two integers may reach Math.round a rounding error above or      *)
(* below the half: `fpTie` fixes, per rounding site, which of the two       *)
(* neighbours Math.round returns there (0: lower, 1: upper).               *)
(*                                                                         *)
(* `args` are the arguments of calculateOneRM, `firstPlan` remembers the    *)
(* plan the first createPersonalizedPlan call of the behaviour returned,    *)
(* `planCalls` counts these calls, and `store` is the local record store    *)
(* (the Dexie database of db.ts).                                           *)
(*                                                                         *)
(* Spec is the engine called on a profile.  AppSpec is onboarding: App      *)
(* mounts and initializes, the wizard collects a profile step by step,      *)
(* calls the engine on its Review step and saves the profile; AppLiveSpec   *)
(* adds that a started initializeApp runs to its end.  TabsSpec is the      *)
(* tabbed interface of an onboarded user: Dashboard, WorkoutPlanner and     *)
(* MealPlanner with their asynchronous calls, each split at its awaits.     *)
(* LaunchSpec is the page loaded again and again over the same database     *)
(* while time passes.  IndicatorSpec is the connectivity indicator.         *)
(***************************************************************************)
EXTENDS Integers, Sequences, FiniteSets, Bags, TLC

VARIABLES profile, fpTie, op, result, args, firstPlan, planCalls, store

\* The application around the engine (App, OnboardingWizard, WorkoutPlanner):
\* the React state of each component, named as in its source.  `displayedStep`
\* is the key of the step content mounted inside AnimatePresence and
\* `pending` the position of handleSubmit.  `lastSaved` is what the exercise
\* form last handed to updateExercise and `completed` lists the profiles
\* the wizard has passed to onComplete.
VARIABLES isLoading, currentUser, showOnboarding, activeTab, completed,
          currentStep, displayedStep, formData, isSubmitting, pending,
          selectedPlan, workoutDays, plannerLoading, editingExercise, lastSaved

\* Dashboard (isLoading is `dashboardLoading`; `markCall` is the state of the
\* last call of markWorkoutComplete) and MealPlanner (selectedPlan is
\* `mealPlan`, isLoading is `mealLoading`).
VARIABLES todayData, currentWorkoutPlan, dashboardLoading, markCall,
          mealPlan, mealLoading

\* The page: `strictMode` tells the development build, in which
\* React.StrictMode runs every mount effect twice, from the production build;
\* `tasks` is the bag of asynchronous calls that are waiting at an await;
\* `clock` is the time new Date() returns and `reloads` counts page loads.
VARIABLES strictMode, tasks, clock, reloads

\* OfflineStatusIndicator: its state, the remaining seconds of the hide
\* timers that are running, and the kind of the last connectivity event.
VARIABLES isOnline, showNotification, timers, lastEvent

appVars == <<isLoading, currentUser, showOnboarding, activeTab, completed>>

wizardVars == <<currentStep, displayedStep, formData, isSubmitting, pending>>

plannerVars == <<selectedPlan, workoutDays, plannerLoading, editingExercise,
                 lastSaved>>

dashboardVars == <<todayData, currentWorkoutPlan, dashboardLoading, markCall>>

mealVars == <<mealPlan, mealLoading>>

tabVars == <<plannerVars, dashboardVars, mealVars>>

pageVars == <<strictMode, tasks, clock, reloads>>

indicatorVars == <<isOnline, showNotification, timers, lastEvent>>

uiVars == <<appVars, wizardVars, tabVars, pageVars, indicatorVars>>

engineVars == <<profile, fpTie, op, result, args, firstPlan, planCalls>>

vars == <<engineVars, store, uiVars>>

----------------------------------------------------------------------------
(* JavaScript number arithmetic *)

Abs(x) == IF x < 0 THEN 0 - x ELSE x

RECURSIVE GCD(_, _)
GCD(a, b) == IF b = 0 THEN a ELSE GCD(b, a % b)

\* The number n/d (d # 0) in lowest terms with a positive denominator.
Rat(n, d) ==
  LET g == GCD(Abs(n), Abs(d))
      s == IF d < 0 THEN 0 - 1 ELSE 1
  IN  [n |-> s * (n \div g), d |-> s * (d \div g)]

Num(i) == [n |-> i, d |-> 1]

PosInfinity == [n |-> 1, d |-> 0]
NegInfinity == [n |-> 0 - 1, d |-> 0]
NaN == [n |-> 0, d |-> 0]

IsFinite(x) == x.d # 0

\* x + y, x - y, x * y on finite numbers.
Plus(x, y) == Rat(x.n * y.d + y.n * x.d, x.d * y.d)
Minus(x, y) == Rat(x.n * y.d - y.n * x.d, x.d * y.d)
Times(x, y) == Rat(x.n * y.n, x.d * y.d)

\* x / y on finite numbers: a zero divisor gives Infinity, -Infinity or NaN.
Divide(x, y) ==
  IF y.n = 0
  THEN IF x.n > 0 THEN PosInfinity ELSE IF x.n < 0 THEN NegInfinity ELSE NaN
  ELSE Rat(x.n * y.d, x.d * y.n)

\* x >= y for a finite y: false for NaN and -Infinity, true for Infinity.
GreaterEq(x, y) ==
  IF x.d = 0 THEN x.n > 0 ELSE x.n * y.d >= y.n * x.d

Floor(x) == x.n \div x.d

IsTie(x) == IsFinite(x) /\ 2 * (x.n % x.d) = x.d

\* Math.round: the nearest integer, the upper one at an exact half; a double
\* whose exact value is a half is rounded as fpTie[site] says.
MathRound(x, site) ==
  IF IsTie(x) THEN Floor(x) + fpTie[site]
  ELSE (2 * x.n + x.d) \div (2 * x.d)

\* Math.min(...) / indexOf on the arrays the engine uses.
Min3(a, b, c) ==
  LET ab == IF a <= b THEN a ELSE b IN IF ab <= c THEN ab ELSE c

IndexOf(seq, x) ==
  IF \E i \in 1..Len(seq) : seq[i] = x
  THEN (CHOOSE i \in 1..Len(seq) : seq[i] = x /\ \A j \in 1..(i - 1) : seq[j] # x) - 1
  ELSE 0 - 1

----------------------------------------------------------------------------
(* Program templates *)

getStrengthProgram(level) ==
  LET beginner ==
      <<
         [name |-> "Day A",
          exercises |-> <<
                [name |-> "Squat", sets |-> 3, reps |-> "5", restTime |-> 180],
                [name |-> "Bench Press", sets |-> 3, reps |-> "5", restTime |-> 180],
                [name |-> "Bent-over Row", sets |-> 3, reps |-> "5", restTime |-> 180],
                [name |-> "Overhead Press", sets |-> 2, reps |-> "8", restTime |-> 120],
                [name |-> "Romanian Deadlift", sets |-> 2, reps |-> "8", restTime |-> 120] >>],
         [name |-> "Day B",
          exercises |-> <<
                [name |-> "Deadlift", sets |-> 1, reps |-> "5", restTime |-> 240],
                [name |-> "Overhead Press", sets |-> 3, reps |-> "5", restTime |-> 180],
                [name |-> "Squat", sets |-> 3, reps |-> "5", restTime |-> 180, weight |-> Rat(9, 10)],
                [name |-> "Pull-ups/Chin-ups", sets |-> 2, reps |-> "AMRAP", restTime |-> 120],
                [name |-> "Dips", sets |-> 2, reps |-> "8-12", restTime |-> 120] >>] >>
  IN  [name |-> "Starting Strength Program",
       type |-> "strength",
       frequency |-> 3,
       duration |-> 12,
       workouts |-> beginner]

getHypertrophyProgram(level) ==
  LET hypertrophy ==
      <<
         [name |-> "Upper Body A",
          exercises |-> <<
                [name |-> "Bench Press", sets |-> 4, reps |-> "8-10", restTime |-> 120],
                [name |-> "Bent-over Row", sets |-> 4, reps |-> "8-10", restTime |-> 120],
                [name |-> "Overhead Press", sets |-> 3, reps |-> "10-12", restTime |-> 90],
                [name |-> "Lat Pulldown", sets |-> 3, reps |-> "10-12", restTime |-> 90],
                [name |-> "Dips", sets |-> 3, reps |-> "12-15", restTime |-> 90],
                [name |-> "Barbell Curls", sets |-> 3, reps |-> "12-15", restTime |-> 60] >>],
         [name |-> "Lower Body A",
          exercises |-> <<
                [name |-> "Squat", sets |-> 4, reps |-> "8-10", restTime |-> 150],
                [name |-> "Romanian Deadlift", sets |-> 4, reps |-> "10-12", restTime |-> 120],
                [name |-> "Bulgarian Split Squat", sets |-> 3, reps |-> "12-15", restTime |-> 90],
                [name |-> "Walking Lunges", sets |-> 3, reps |-> "12-15", restTime |-> 90],
                [name |-> "Calf Raises", sets |-> 4, reps |-> "15-20", restTime |-> 60],
                [name |-> "Plank", sets |-> 3, reps |-> "60s", restTime |-> 60] >>],
         [name |-> "Upper Body B",
          exercises |-> <<
                [name |-> "Incline Dumbbell Press", sets |-> 4, reps |-> "8-10", restTime |-> 120],
                [name |-> "Seated Cable Row", sets |-> 4, reps |-> "8-10", restTime |-> 120],
                [name |-> "Dumbbell Shoulder Press", sets |-> 3, reps |-> "10-12", restTime |-> 90],
                [name |-> "Pull-ups", sets |-> 3, reps |-> "AMRAP", restTime |-> 90],
                [name |-> "Tricep Extensions", sets |-> 3, reps |-> "12-15", restTime |-> 60],
                [name |-> "Hammer Curls", sets |-> 3, reps |-> "12-15", restTime |-> 60] >>],
         [name |-> "Lower Body B",
          exercises |-> <<
                [name |-> "Deadlift", sets |-> 4, reps |-> "6-8", restTime |-> 180],
                [name |-> "Front Squat", sets |-> 3, reps |-> "10-12", restTime |-> 120],
                [name |-> "Leg Curls", sets |-> 3, reps |-> "12-15", restTime |-> 90],
                [name |-> "Leg Press", sets |-> 3, reps |-> "15-20", restTime |-> 90],
                [name |-> "Standing Calf Raises", sets |-> 4, reps |-> "15-20", restTime |-> 60],
                [name |-> "Russian Twists", sets |-> 3, reps |-> "20", restTime |-> 60] >>] >>
  IN  [name |-> "Upper/Lower Hypertrophy Split",
       type |-> "hypertrophy",
       frequency |-> 4,
       duration |-> 8,
       workouts |-> hypertrophy]

getFatLossProgram(level) ==
  LET fatLoss ==
      <<
         [name |-> "Full Body Circuit A",
          exercises |-> <<
                [name |-> "Goblet Squats", sets |-> 3, reps |-> "15", restTime |-> 45],
                [name |-> "Push-ups", sets |-> 3, reps |-> "12-15", restTime |-> 45],
                [name |-> "Bent-over Dumbbell Rows", sets |-> 3, reps |-> "12", restTime |-> 45],
                [name |-> "Mountain Climbers", sets |-> 3, reps |-> "20", restTime |-> 45],
                [name |-> "Plank", sets |-> 3, reps |-> "45s", restTime |-> 45],
                [name |-> "Burpees", sets |-> 3, reps |-> "8-10", restTime |-> 60] >>],
         [name |-> "Full Body Circuit B",
          exercises |-> <<
                [name |-> "Deadlifts", sets |-> 3, reps |-> "10", restTime |-> 60],
                [name |-> "Overhead Press", sets |-> 3, reps |-> "10", restTime |-> 45],
                [name |-> "Lunges", sets |-> 3, reps |-> "12 each leg", restTime |-> 45],
                [name |-> "Jumping Jacks", sets |-> 3, reps |-> "30", restTime |-> 30],
                [name |-> "Russian Twists", sets |-> 3, reps |-> "20", restTime |-> 30],
                [name |-> "High Knees", sets |-> 3, reps |-> "30s", restTime |-> 45] >>],
         [name |-> "Full Body Circuit C",
          exercises |-> <<
                [name |-> "Thrusters", sets |-> 3, reps |-> "12", restTime |-> 45],
                [name |-> "Renegade Rows", sets |-> 3, reps |-> "8 each arm", restTime |-> 60],
                [name |-> "Jump Squats", sets |-> 3, reps |-> "15", restTime |-> 45],
                [name |-> "Bicycle Crunches", sets |-> 3, reps |-> "20", restTime |-> 30],
                [name |-> "Bear Crawl", sets |-> 3, reps |-> "30s", restTime |-> 45],
                [name |-> "Battle Ropes", sets |-> 3, reps |-> "30s", restTime |-> 60] >>] >>
  IN  [name |-> "Fat Loss Circuit Training",
       type |-> "fat_loss",
       frequency |-> 3,
       duration |-> 6,
       workouts |-> fatLoss]

----------------------------------------------------------------------------
(* Profiles the engine is called with *)

MaxWeightSteps == 5
MaxHeightSteps == 3
MaxAgeSteps == 2
MaxFineSteps == 26
MaxCoarseSteps == 4

Genders == {"male", "female", "other"}

\* The three declared aims and one value outside the declared union.
FitnessAims == {"lose_fat", "gain_muscle", "maintain", "recomp"}

Weights == {20 * i : i \in (0 - 1)..MaxWeightSteps}
Heights == {0} \cup {180 - i : i \in 0..MaxHeightSteps}
Ages == {0} \cup {30 + i : i \in 0..MaxAgeSteps}

StrengthWeights == {0 - 80, 0, 80}
FineLifts == {8 * k : k \in 0..MaxFineSteps}
CoarseLifts == {60 * k : k \in 0..MaxCoarseSteps}

\* An optional field is a set: empty when the field is absent, {v} when set.
LiftChoices(values) == {{}} \cup {{v} : v \in values}

Optional(field, choice) ==
  [f \in (IF choice = {} THEN {} ELSE {field}) |-> CHOOSE v \in choice : TRUE]

BaseProfile(w, h, a, g, f) ==
  [weight |-> w, height |-> h, age |-> a, gender |-> g, fitnessAim |-> f]

WithLifts(base, b, s, d) ==
  base @@ Optional("benchPress", b) @@ Optional("squat", s)
       @@ Optional("deadlift", d)

\* Body measurements vary, no lift is recorded.
NutritionProfiles ==
  {BaseProfile(w, h, a, g, f) :
     w \in Weights, h \in Heights, a \in Ages, g \in Genders, f \in FitnessAims}

\* Every combination of recorded, zero and absent lifts on a coarse grid.
CoarseProfiles ==
  {WithLifts(BaseProfile(w, 180, 30, g, f), b, s, d) :
     w \in StrengthWeights, g \in Genders, f \in FitnessAims,
     b \in LiftChoices(CoarseLifts), s \in LiftChoices(CoarseLifts),
     d \in LiftChoices(CoarseLifts)}

\* One lift sweeps a fine grid while the other two are absent or maximal.
SweepTriples ==
  UNION {{<<{v}, o, o>>, <<o, {v}, o>>, <<o, o, {v}>>} :
           v \in FineLifts, o \in {{}, {60 * MaxCoarseSteps}}}

SweepProfiles ==
  {WithLifts(BaseProfile(80, 180, 30, g, "maintain"), t[1], t[2], t[3]) :
     g \in Genders, t \in SweepTriples}

Profiles == NutritionProfiles \cup CoarseProfiles \cup SweepProfiles

\* The profile of the worked examples: male, 80 kg, 180 cm, 30 years.
ReferenceProfile == BaseProfile(80, 180, 30, "male", "maintain")

\* Arguments of calculateOneRM: <<weight, reps>>, reps of either sign.
MaxReps == 31

OneRMWeights == {0 - 100, 0, 45, 100}

OneRMArgs == {<<w, r>> : w \in OneRMWeights, r \in (0 - MaxReps)..MaxReps}

DefaultArgs == <<100, 1>>

\* createPersonalizedPlan calls followed in one behaviour.
MaxPlanCalls == 2

----------------------------------------------------------------------------
(* EvaluationModel *)

\* Mutant: a negative result is clamped to zero.
calculateBMR_Clamped(p) ==
  LET weight == Num(p.weight)
      height == Num(p.height)
      age == Num(p.age)
      base == Minus(Plus(Times(Num(10), weight), Times(Rat(625, 100), height)),
                    Times(Num(5), age))
      bmr == IF p.gender = "male" THEN Plus(base, Num(5)) ELSE Minus(base, Num(161))
  IN  IF GreaterEq(bmr, Num(0)) THEN bmr ELSE Num(0)

\* Mutant: only female takes the -161 branch, other is treated as male.
calculateBMR_OtherAsMale(p) ==
  LET weight == Num(p.weight)
      height == Num(p.height)
      age == Num(p.age)
      base == Minus(Plus(Times(Num(10), weight), Times(Rat(625, 100), height)),
                    Times(Num(5), age))
  IN  IF p.gender = "female"
      THEN Minus(base, Num(161))
      ELSE Plus(base, Num(5))

calculateBMR(p) ==
  LET weight == Num(p.weight)
      height == Num(p.height)
      age == Num(p.age)
      base == Minus(Plus(Times(Num(10), weight), Times(Rat(625, 100), height)),
                    Times(Num(5), age))
  IN  IF p.gender = "male"
      THEN Plus(base, Num(5))
      ELSE Minus(base, Num(161))

\* Mutant: the multiplier follows the fitnessAim.
calculateTDEE_ByAim(p) ==
  LET bmr == calculateBMR(p)
      activityMultiplier ==
        IF p.fitnessAim = "lose_fat" THEN Rat(1725, 1000) ELSE Rat(155, 100)
  IN  Times(bmr, activityMultiplier)

calculateTDEE(p) ==
  LET bmr == calculateBMR(p)
      activityMultiplier == Rat(155, 100)
  IN  Times(bmr, activityMultiplier)

\* Mutant: the reps = 1 special case is missing.
calculateOneRM_NoSpecialCase(weight, reps) ==
  Times(weight, Plus(Num(1), Divide(reps, Num(30))))

calculateOneRM(weight, reps) ==
  IF reps = Num(1) THEN weight
  ELSE Times(weight, Plus(Num(1), Divide(reps, Num(30))))

\* const { benchPress = 0, squat = 0, deadlift = 0 } = profile
LiftOrDefault(p, field) == IF field \in DOMAIN p THEN p[field] ELSE 0

\* Mutant: only female gets the lower set, other is assessed as male.
standards_OtherAsMale(gender) ==
  IF gender # "female"
  THEN [bench |-> [beginner |-> Rat(5, 10), novice |-> Rat(8, 10),
                   intermediate |-> Rat(12, 10), advanced |-> Rat(15, 10)],
        squat |-> [beginner |-> Rat(8, 10), novice |-> Rat(12, 10),
                   intermediate |-> Rat(18, 10), advanced |-> Rat(22, 10)],
        deadlift |-> [beginner |-> Rat(10, 10), novice |-> Rat(15, 10),
                      intermediate |-> Rat(20, 10), advanced |-> Rat(25, 10)]]
  ELSE [bench |-> [beginner |-> Rat(3, 10), novice |-> Rat(5, 10),
                   intermediate |-> Rat(8, 10), advanced |-> Rat(10, 10)],
        squat |-> [beginner |-> Rat(6, 10), novice |-> Rat(9, 10),
                   intermediate |-> Rat(13, 10), advanced |-> Rat(16, 10)],
        deadlift |-> [beginner |-> Rat(8, 10), novice |-> Rat(12, 10),
                      intermediate |-> Rat(16, 10), advanced |-> Rat(20, 10)]]

standards(gender) ==
  IF gender = "male"
  THEN [bench |-> [beginner |-> Rat(5, 10), novice |-> Rat(8, 10),
                   intermediate |-> Rat(12, 10), advanced |-> Rat(15, 10)],
        squat |-> [beginner |-> Rat(8, 10), novice |-> Rat(12, 10),
                   intermediate |-> Rat(18, 10), advanced |-> Rat(22, 10)],
        deadlift |-> [beginner |-> Rat(10, 10), novice |-> Rat(15, 10),
                      intermediate |-> Rat(20, 10), advanced |-> Rat(25, 10)]]
  ELSE [bench |-> [beginner |-> Rat(3, 10), novice |-> Rat(5, 10),
                   intermediate |-> Rat(8, 10), advanced |-> Rat(10, 10)],
        squat |-> [beginner |-> Rat(6, 10), novice |-> Rat(9, 10),
                   intermediate |-> Rat(13, 10), advanced |-> Rat(16, 10)],
        deadlift |-> [beginner |-> Rat(8, 10), novice |-> Rat(12, 10),
                      intermediate |-> Rat(16, 10), advanced |-> Rat(20, 10)]]

\* Mutant: a ratio must exceed a threshold, equality no longer counts.
assessLift_Strict(liftWeight, weight, standard) ==
  LET ratio == Divide(Num(liftWeight), Num(weight))
      Exceeds(x, y) == IF x.d = 0 THEN x.n > 0 ELSE x.n * y.d > y.n * x.d
  IN  IF Exceeds(ratio, standard.advanced) THEN "advanced"
      ELSE IF Exceeds(ratio, standard.intermediate) THEN "intermediate"
      ELSE IF Exceeds(ratio, standard.novice) THEN "novice"
      ELSE "beginner"

\* Mutant: the cascade runs upwards on ratio < threshold, so that a NaN ratio
\* (0 / 0) falls through every test to advanced.
assessLift_Upwards(liftWeight, weight, standard) ==
  LET ratio == Divide(Num(liftWeight), Num(weight))
      Below(x, y) == IF x.d = 0 THEN x.n < 0 ELSE x.n * y.d < y.n * x.d
  IN  IF Below(ratio, standard.novice) THEN "beginner"
      ELSE IF Below(ratio, standard.intermediate) THEN "novice"
      ELSE IF Below(ratio, standard.advanced) THEN "intermediate"
      ELSE "advanced"

assessLift(liftWeight, weight, standard) ==
  LET ratio == Divide(Num(liftWeight), Num(weight))
  IN  IF GreaterEq(ratio, standard.advanced) THEN "advanced"
      ELSE IF GreaterEq(ratio, standard.intermediate) THEN "intermediate"
      ELSE IF GreaterEq(ratio, standard.novice) THEN "novice"
      ELSE "beginner"

levels == <<"beginner", "novice", "intermediate", "advanced">>

\* Mutant: the overall level is the highest of the three.
overallIndex_Max(benchLevel, squatLevel, deadliftLevel) ==
  0 - Min3(0 - IndexOf(levels, benchLevel), 0 - IndexOf(levels, squatLevel),
           0 - IndexOf(levels, deadliftLevel))

overallIndex(benchLevel, squatLevel, deadliftLevel) ==
  Min3(IndexOf(levels, benchLevel), IndexOf(levels, squatLevel),
       IndexOf(levels, deadliftLevel))

assessStrengthLevel(p) ==
  LET weight == p.weight
      benchPress == LiftOrDefault(p, "benchPress")
      squat == LiftOrDefault(p, "squat")
      deadlift == LiftOrDefault(p, "deadlift")
      benchLevel == assessLift(benchPress, weight, standards(p.gender).bench)
      squatLevel == assessLift(squat, weight, standards(p.gender).squat)
      deadliftLevel == assessLift(deadlift, weight, standards(p.gender).deadlift)
  IN  [bench |-> benchLevel,
       squat |-> squatLevel,
       deadlift |-> deadliftLevel,
       overall |-> levels[overallIndex(benchLevel, squatLevel, deadliftLevel) + 1]]

\* Mutant: the branches of gain_muscle and lose_fat are exchanged.
generateWorkoutProgram_Swapped(p) ==
  LET strengthLevel == assessStrengthLevel(p)
      fitnessAim == p.fitnessAim
  IN  IF fitnessAim = "gain_muscle" THEN getFatLossProgram(strengthLevel.overall)
      ELSE IF fitnessAim = "lose_fat" THEN getHypertrophyProgram(strengthLevel.overall)
      ELSE getStrengthProgram(strengthLevel.overall)

\* Mutant: the strength level gates the selection, a beginner always gets
\* the strength program.
generateWorkoutProgram_LevelGated(p) ==
  LET strengthLevel == assessStrengthLevel(p)
      fitnessAim == p.fitnessAim
  IN  IF strengthLevel.overall = "beginner" THEN getStrengthProgram(strengthLevel.overall)
      ELSE IF fitnessAim = "gain_muscle" THEN getHypertrophyProgram(strengthLevel.overall)
      ELSE IF fitnessAim = "lose_fat" THEN getFatLossProgram(strengthLevel.overall)
      ELSE getStrengthProgram(strengthLevel.overall)

generateWorkoutProgram(p) ==
  LET strengthLevel == assessStrengthLevel(p)
      fitnessAim == p.fitnessAim
  IN  IF fitnessAim = "gain_muscle" THEN getHypertrophyProgram(strengthLevel.overall)
      ELSE IF fitnessAim = "lose_fat" THEN getFatLossProgram(strengthLevel.overall)
      ELSE getStrengthProgram(strengthLevel.overall)

\* Mutant: the deficit of the lose_fat branch is 15% instead of 20%.
nutritionSwitch_WrongFactor(fitnessAim, tdee) ==
  CASE fitnessAim = "lose_fat" ->
         [calories |-> Times(tdee, Rat(85, 100)), caloriesSite |-> "calories",
          proteinPercent |-> 40, carbsPercent |-> 30, fatPercent |-> 30]
    [] fitnessAim = "gain_muscle" ->
         [calories |-> Times(tdee, Rat(115, 100)), caloriesSite |-> "calories",
          proteinPercent |-> 25, carbsPercent |-> 50, fatPercent |-> 25]
    [] OTHER ->
         [calories |-> tdee, caloriesSite |-> "tdee",
          proteinPercent |-> 30, carbsPercent |-> 40, fatPercent |-> 30]

\* Mutant: the gain_muscle branch carries the split of the default branch.
nutritionSwitch_WrongSplit(fitnessAim, tdee) ==
  CASE fitnessAim = "lose_fat" ->
         [calories |-> Times(tdee, Rat(8, 10)), caloriesSite |-> "calories",
          proteinPercent |-> 40, carbsPercent |-> 30, fatPercent |-> 30]
    [] fitnessAim = "gain_muscle" ->
         [calories |-> Times(tdee, Rat(115, 100)), caloriesSite |-> "calories",
          proteinPercent |-> 30, carbsPercent |-> 40, fatPercent |-> 30]
    [] OTHER ->
         [calories |-> tdee, caloriesSite |-> "tdee",
          proteinPercent |-> 30, carbsPercent |-> 40, fatPercent |-> 30]

\* The switch on fitnessAim: the calorie target (not yet rounded) and the
\* macro split.  In the default branch `calories` is the very double `tdee`.
nutritionSwitch(fitnessAim, tdee) ==
  CASE fitnessAim = "lose_fat" ->
         [calories |-> Times(tdee, Rat(8, 10)), caloriesSite |-> "calories",
          proteinPercent |-> 40, carbsPercent |-> 30, fatPercent |-> 30]
    [] fitnessAim = "gain_muscle" ->
         [calories |-> Times(tdee, Rat(115, 100)), caloriesSite |-> "calories",
          proteinPercent |-> 25, carbsPercent |-> 50, fatPercent |-> 25]
    [] OTHER ->
         [calories |-> tdee, caloriesSite |-> "tdee",
          proteinPercent |-> 30, carbsPercent |-> 40, fatPercent |-> 30]

\* Mutant: every macro, fat included, is taken at 4 kcal per gram.
macroGrams_FatAsFour(calories, percent, caloriesPerGram) ==
  Divide(Divide(Times(calories, Num(percent)), Num(100)), Num(4))

\* The macro grams before rounding.
macroGrams(calories, percent, caloriesPerGram) ==
  Divide(Divide(Times(calories, Num(percent)), Num(100)), Num(caloriesPerGram))

\* The values generateNutritionPlan hands to Math.round, by rounding site.
unrounded(p) ==
  LET tdee == calculateTDEE(p)
      sw == nutritionSwitch(p.fitnessAim, tdee)
  IN  [tdee |-> tdee,
       calories |-> sw.calories,
       protein |-> macroGrams(sw.calories, sw.proteinPercent, 4),
       carbs |-> macroGrams(sw.calories, sw.carbsPercent, 4),
       fat |-> macroGrams(sw.calories, sw.fatPercent, 9)]

\* Mutant: the macro grams are derived from the rounded calorie total.
generateNutritionPlan_FromRounded(p) ==
  LET tdee == calculateTDEE(p)
      sw == nutritionSwitch(p.fitnessAim, tdee)
      total == MathRound(sw.calories, sw.caloriesSite)
  IN  [totalCalories |-> total,
       protein |-> MathRound(macroGrams(Num(total), sw.proteinPercent, 4), "protein"),
       carbs |-> MathRound(macroGrams(Num(total), sw.carbsPercent, 4), "carbs"),
       fat |-> MathRound(macroGrams(Num(total), sw.fatPercent, 9), "fat"),
       proteinPercent |-> sw.proteinPercent,
       carbsPercent |-> sw.carbsPercent,
       fatPercent |-> sw.fatPercent,
       mealsPerDay |-> 4]

generateNutritionPlan(p) ==
  LET tdee == calculateTDEE(p)
      sw == nutritionSwitch(p.fitnessAim, tdee)
      protein == macroGrams(sw.calories, sw.proteinPercent, 4)
      carbs == macroGrams(sw.calories, sw.carbsPercent, 4)
      fat == macroGrams(sw.calories, sw.fatPercent, 9)
  IN  [totalCalories |-> MathRound(sw.calories, sw.caloriesSite),
       protein |-> MathRound(protein, "protein"),
       carbs |-> MathRound(carbs, "carbs"),
       fat |-> MathRound(fat, "fat"),
       proteinPercent |-> sw.proteinPercent,
       carbsPercent |-> sw.carbsPercent,
       fatPercent |-> sw.fatPercent,
       mealsPerDay |-> 4]

\* `${n}` of an integer-valued number.
TemplateNumber(n) == ToString(n)

\* Mutant: the TDEE sentence quotes the calorie target of the plan.
recommendationsOf_CaloriesAsTdee(strengthLevel, workoutProgram, tdee, nutritionPlan) ==
  <<"Based on your strength level (" \o strengthLevel.overall
      \o "), we've designed a " \o workoutProgram.type \o " program.",
    "Your estimated TDEE is " \o TemplateNumber(nutritionPlan.totalCalories)
      \o " calories per day.",
    "Target " \o TemplateNumber(nutritionPlan.protein) \o "g protein, "
      \o TemplateNumber(nutritionPlan.carbs) \o "g carbs, "
      \o TemplateNumber(nutritionPlan.fat) \o "g fat daily.",
    "Track your workouts and adjust weights progressively.",
    "Stay consistent with your nutrition and training schedule.",
    "Take progress photos and measurements weekly.">>

\* The recommendations array of createPersonalizedPlan; `tdee` is the value
\* of this.calculateTDEE(profile) inside the second template.
recommendationsOf(strengthLevel, workoutProgram, tdee, nutritionPlan) ==
  <<"Based on your strength level (" \o strengthLevel.overall
      \o "), we've designed a " \o workoutProgram.type \o " program.",
    "Your estimated TDEE is " \o TemplateNumber(MathRound(tdee, "tdee"))
      \o " calories per day.",
    "Target " \o TemplateNumber(nutritionPlan.protein) \o "g protein, "
      \o TemplateNumber(nutritionPlan.carbs) \o "g carbs, "
      \o TemplateNumber(nutritionPlan.fat) \o "g fat daily.",
    "Track your workouts and adjust weights progressively.",
    "Stay consistent with your nutrition and training schedule.",
    "Take progress photos and measurements weekly.">>

\* Mutant: the strength assessment is returned as a field of the plan.
createPersonalizedPlan_WithAssessment(p) ==
  LET workoutProgram == generateWorkoutProgram(p)
      nutritionPlan == generateNutritionPlan(p)
      strengthLevel == assessStrengthLevel(p)
      recommendations ==
        recommendationsOf(strengthLevel, workoutProgram, calculateTDEE(p), nutritionPlan)
  IN  [strengthAssessment |-> strengthLevel,
       workoutProgram |-> workoutProgram,
       nutritionPlan |-> nutritionPlan,
       recommendations |-> recommendations]

\* Mutant: the engine keeps state, a call after the first plan of the
\* session returns a different meal count.
createPersonalizedPlan_Stateful(p) ==
  LET workoutProgram == generateWorkoutProgram(p)
      nutritionPlan == generateNutritionPlan(p)
      strengthLevel == assessStrengthLevel(p)
      recommendations ==
        recommendationsOf(strengthLevel, workoutProgram, calculateTDEE(p), nutritionPlan)
  IN  [workoutProgram |-> workoutProgram,
       nutritionPlan |->
         IF op = "none" THEN nutritionPlan
         ELSE [nutritionPlan EXCEPT !.mealsPerDay = 5],
       recommendations |-> recommendations]

createPersonalizedPlan(p) ==
  LET workoutProgram == generateWorkoutProgram(p)
      nutritionPlan == generateNutritionPlan(p)
      strengthLevel == assessStrengthLevel(p)
      recommendations ==
        recommendationsOf(strengthLevel, workoutProgram, calculateTDEE(p), nutritionPlan)
  IN  [workoutProgram |-> workoutProgram,
       nutritionPlan |-> nutritionPlan,
       recommendations |-> recommendations]

----------------------------------------------------------------------------
(* The local record store *)

Tables ==
  {"userProfiles", "workoutPlans", "workoutLogs", "mealPlans", "mealLogs",
   "progressEntries", "syncQueue"}

\* Every table is the sequence of its records in primary key order.
EmptyStore == [t \in Tables |-> <<>>]

\* table.add(record) on a '++id' table: the next key is assigned.
AddRecord(st, table, record) ==
  [st EXCEPT ![table] = Append(@, record @@ [id |-> Len(@) + 1])]

\* table.update(key, changes): the changed fields replace the old ones.
UpdateRecord(st, table, key, changes) ==
  [st EXCEPT ![table] =
     [i \in DOMAIN @ |-> IF @[i].id = key THEN changes @@ @[i] ELSE @[i]]]

\* dbHelpers.addToSyncQueue.  No component calls it.
addToSyncQueue(st, tableName, operation, recordId, data) ==
  AddRecord(st, "syncQueue",
            [tableName |-> tableName, operation |-> operation,
             recordId |-> recordId, data |-> data, synced |-> FALSE])

\* The Exercise records WorkoutPlanner.createDefaultPlan derives from the
\* first day of the program (ex.weight || 0).
ToExercises(workoutProgram) ==
  IF workoutProgram.workouts = <<>> THEN <<>>
  ELSE LET exercises == workoutProgram.workouts[1].exercises
       IN  [index \in DOMAIN exercises |->
              [id |-> index,
               name |-> exercises[index].name,
               sets |-> exercises[index].sets,
               reps |-> exercises[index].reps,
               weight |-> IF "weight" \in DOMAIN exercises[index]
                          THEN exercises[index].weight ELSE Num(0),
               restTime |-> exercises[index].restTime]]

\* The WorkoutPlan record of WorkoutPlanner.createDefaultPlan.
WorkoutPlanOf(userId, workoutProgram) ==
  [userId |-> userId,
   name |-> workoutProgram.name,
   description |-> "Personalized " \o workoutProgram.type \o " program",
   exercises |-> ToExercises(workoutProgram),
   frequency |-> workoutProgram.frequency]

\* The store after the callers of the engine have persisted the profile and
\* the default workout plan generated for it.
StoredBy(p) ==
  LET withUser == AddRecord(EmptyStore, "userProfiles", p)
      user == withUser.userProfiles[1]
  IN  AddRecord(withUser, "workoutPlans",
                WorkoutPlanOf(user.id, createPersonalizedPlan(user).workoutProgram))

----------------------------------------------------------------------------
(* The components of the application as constructed *)

\* No value: nothing returned yet, null, undefined.
NoResult == [none |-> TRUE]

NoUser == NoResult

\* useState of OnboardingWizard.  A string is the sequence of its characters.
InitialFormData ==
  [name |-> <<>>,
   weight |-> 70,
   height |-> 170,
   age |-> 25,
   gender |-> "male",
   fitnessAim |-> "maintain",
   benchPress |-> 0,
   squat |-> 0,
   deadlift |-> 0,
   overheadPress |-> 0]

\* handleSubmit has not been called; after a rejected add its phase is
\* "rejected".
Idle == [phase |-> "idle"]

WizardInit ==
  /\ currentStep = 0
  /\ displayedStep = 0
  /\ formData = InitialFormData
  /\ isSubmitting = FALSE
  /\ pending = Idle

PlannerInit ==
  /\ selectedPlan = NoUser
  /\ workoutDays = <<>>
  /\ plannerLoading = TRUE
  /\ editingExercise = NoResult
  /\ lastSaved = NoResult

DashboardInit ==
  /\ todayData = NoResult
  /\ currentWorkoutPlan = NoResult
  /\ dashboardLoading = TRUE
  /\ markCall = "none"

MealPlannerInit ==
  /\ mealPlan = NoResult
  /\ mealLoading = TRUE

\* useState of OfflineStatusIndicator, given navigator.onLine.
IndicatorCreated(onLine) ==
  /\ isOnline = onLine
  /\ showNotification = FALSE
  /\ timers = <<>>
  /\ lastEvent = "none"

\* App and the components it renders.
ComponentsInit ==
  /\ isLoading = TRUE
  /\ currentUser = NoUser
  /\ showOnboarding = FALSE
  /\ activeTab = "dashboard"
  /\ completed = <<>>
  /\ WizardInit
  /\ PlannerInit
  /\ DashboardInit
  /\ MealPlannerInit

UIInit ==
  /\ ComponentsInit
  /\ IndicatorCreated(TRUE)

\* The same components mounted again, with their initial state.
WizardMounted ==
  /\ currentStep' = 0
  /\ displayedStep' = 0
  /\ formData' = InitialFormData
  /\ isSubmitting' = FALSE
  /\ pending' = Idle

TabsMounted ==
  /\ selectedPlan' = NoUser
  /\ workoutDays' = <<>>
  /\ plannerLoading' = TRUE
  /\ editingExercise' = NoResult
  /\ lastSaved' = NoResult
  /\ todayData' = NoResult
  /\ currentWorkoutPlan' = NoResult
  /\ dashboardLoading' = TRUE
  /\ markCall' = "none"
  /\ mealPlan' = NoResult
  /\ mealLoading' = TRUE

PageMounted ==
  /\ isLoading' = TRUE
  /\ currentUser' = NoUser
  /\ showOnboarding' = FALSE
  /\ activeTab' = "dashboard"
  /\ completed' = <<>>
  /\ WizardMounted
  /\ TabsMounted
  /\ isOnline' = TRUE
  /\ showNotification' = FALSE
  /\ timers' = <<>>
  /\ lastEvent' = "none"

\* No page is loaded: nothing runs.
NoPage ==
  /\ strictMode = FALSE
  /\ tasks = EmptyBag
  /\ clock = 0
  /\ reloads = 0

----------------------------------------------------------------------------
(* The state machine: one profile, engine methods called in any order *)

RoundSites == {"tdee", "calories", "protein", "carbs", "fat"}

\* Rounding error can only decide a Math.round whose exact argument is a half.
TieOutcomes(p) ==
  LET u == unrounded(p)
      ties == {s \in RoundSites : IsTie(u[s])}
  IN  {[s \in RoundSites |-> IF s \in down THEN 0 ELSE 1] : down \in SUBSET ties}

Init ==
  /\ profile \in Profiles
  /\ fpTie \in TieOutcomes(profile)
  /\ op = "none"
  /\ result = NoResult
  /\ args \in (IF profile = ReferenceProfile THEN OneRMArgs ELSE {DefaultArgs})
  /\ firstPlan = NoResult
  /\ planCalls = 0
  /\ store \in (IF profile = ReferenceProfile
                THEN {EmptyStore, StoredBy(profile)} ELSE {EmptyStore})
  /\ UIInit
  /\ NoPage

CallCalculateBMR ==
  /\ op' = "calculateBMR"
  /\ result' = calculateBMR(profile)
  /\ UNCHANGED <<profile, fpTie, args, firstPlan, planCalls, store, uiVars>>

CallCalculateTDEE ==
  /\ op' = "calculateTDEE"
  /\ result' = calculateTDEE(profile)
  /\ UNCHANGED <<profile, fpTie, args, firstPlan, planCalls, store, uiVars>>

CallAssessStrengthLevel ==
  /\ op' = "assessStrengthLevel"
  /\ result' = assessStrengthLevel(profile)
  /\ UNCHANGED <<profile, fpTie, args, firstPlan, planCalls, store, uiVars>>

CallGenerateWorkoutProgram ==
  /\ op' = "generateWorkoutProgram"
  /\ result' = generateWorkoutProgram(profile)
  /\ UNCHANGED <<profile, fpTie, args, firstPlan, planCalls, store, uiVars>>

CallGenerateNutritionPlan ==
  /\ op' = "generateNutritionPlan"
  /\ result' = generateNutritionPlan(profile)
  /\ UNCHANGED <<profile, fpTie, args, firstPlan, planCalls, store, uiVars>>

CallCalculateOneRM ==
  /\ op' = "calculateOneRM"
  /\ result' = calculateOneRM(Num(args[1]), Num(args[2]))
  /\ UNCHANGED <<profile, fpTie, args, firstPlan, planCalls, store, uiVars>>

\* Mutant: the engine saves the plan it generated.
CallCreatePersonalizedPlan_Persisting ==
  /\ planCalls < MaxPlanCalls
  /\ op' = "createPersonalizedPlan"
  /\ result' = createPersonalizedPlan(profile)
  /\ firstPlan' = IF planCalls = 0 THEN result' ELSE firstPlan
  /\ planCalls' = planCalls + 1
  /\ store' = AddRecord(store, "workoutPlans",
                        WorkoutPlanOf(0, result'.workoutProgram))
  /\ UNCHANGED <<profile, fpTie, args, uiVars>>

CallCreatePersonalizedPlan ==
  /\ planCalls < MaxPlanCalls
  /\ op' = "createPersonalizedPlan"
  /\ result' = createPersonalizedPlan(profile)
  /\ firstPlan' = IF planCalls = 0 THEN result' ELSE firstPlan
  /\ planCalls' = planCalls + 1
  /\ UNCHANGED <<profile, fpTie, args, store, uiVars>>

Next ==
  \/ CallCalculateBMR
  \/ CallCalculateTDEE
  \/ CallCalculateOneRM
  \/ CallAssessStrengthLevel
  \/ CallGenerateWorkoutProgram
  \/ CallGenerateNutritionPlan
  \/ CallCreatePersonalizedPlan

Spec == Init /\ [][Next]_vars

----------------------------------------------------------------------------
(* Text typed into the wizard *)

DigitChars == <<"0", "1", "2", "3", "4", "5", "6", "7", "8", "9">>

IsDigit(c) == \E i \in DOMAIN DigitChars : DigitChars[i] = c

DigitValue(c) == (CHOOSE i \in DOMAIN DigitChars : DigitChars[i] = c) - 1

RECURSIVE TrimStart(_)
TrimStart(text) ==
  IF text # <<>> /\ Head(text) = " " THEN TrimStart(Tail(text)) ELSE text

RECURSIVE TrimEnd(_)
TrimEnd(text) ==
  IF text # <<>> /\ text[Len(text)] = " "
  THEN TrimEnd(SubSeq(text, 1, Len(text) - 1)) ELSE text

\* String.prototype.trim
Trim(text) == TrimEnd(TrimStart(text))

\* The value of the decimal digits `text` starts with, after `acc`.
RECURSIVE LeadingDigits(_, _)
LeadingDigits(text, acc) ==
  IF text = <<>> \/ ~IsDigit(Head(text)) THEN acc
  ELSE LeadingDigits(Tail(text), 10 * acc + DigitValue(Head(text)))

\* parseInt(text): optional sign, then the leading digits; NaN without one.
parseInt(text) ==
  LET t == TrimStart(text)
      signed == t # <<>> /\ Head(t) \in {"-", "+"}
      digits == IF signed THEN Tail(t) ELSE t
  IN  IF digits = <<>> \/ ~IsDigit(Head(digits)) THEN NaN
      ELSE IF signed /\ Head(t) = "-" THEN Num(0 - LeadingDigits(digits, 0))
      ELSE Num(LeadingDigits(digits, 0))

\* parseFloat(text) of a text without fraction or exponent.
parseFloat(text) == parseInt(text)

\* x || 0 of a number: NaN and 0 give 0.
OrZero(x) == IF x = NaN \/ x.n = 0 THEN 0 ELSE x.n

NameTexts == {<<>>, <<" ">>, <<"A">>}
AgeTexts == {<<>>, <<"2", "5">>}
WeightTexts == {<<>>, <<"-", "7", "0">>, <<"7", "0">>}
HeightTexts == {<<"0">>, <<"1", "7", "0">>}
LiftTexts == {<<>>, <<"1", "0", "0">>}

GenderOptions == {"male", "female", "other"}
GoalOptions == {"lose_fat", "gain_muscle", "maintain"}
LiftInputs == {"benchPress", "squat", "deadlift", "overheadPress"}

----------------------------------------------------------------------------
(* Asynchronous calls *)

\* Calls waiting at an await in one behaviour.
MaxTasks == 2

One(task) == SetToBag({task})

\* A mount effect runs once, and twice under React.StrictMode in the
\* development build.
Effect(task) == IF strictMode THEN One(task) (+) One(task) ELSE One(task)

\* The waiting calls of a handler that are at the given await.
Waiting(kind, phase) ==
  {t \in BagToSet(tasks) : t.kind = kind /\ t.phase = phase}

\* The tab that started the calls is unmounted: they go on, and their state
\* updates are dropped.  A call of loadDashboardData only reads the database
\* and updates state, so that nothing of it is left.
Detached(bag) ==
  LET ofApp == {t \in BagToSet(bag) : t.kind = "initializeApp"}
      writing == {t \in BagToSet(bag) \ ofApp : t.kind # "loadDashboardData"}
      left == {[t EXCEPT !.attached = FALSE] : t \in writing}
  IN  [d \in left |->
         CopiesIn(d, bag) + CopiesIn([d EXCEPT !.attached = TRUE], bag)]
      (+) [t \in ofApp |-> CopiesIn(t, bag)]

\* initializeApp waiting for db.open() and dbHelpers.getCurrentUser().
InitTask == [kind |-> "initializeApp", phase |-> "open", attached |-> TRUE]

\* The call a tab starts in its effect.
LoadTask(tab) ==
  CASE tab = "dashboard" ->
         [kind |-> "loadDashboardData", phase |-> "getTodayData",
          attached |-> TRUE, refresh |-> FALSE]
    [] tab = "workouts" ->
         [kind |-> "loadWorkoutPlans", phase |-> "plans", attached |-> TRUE]
    [] tab = "meals" ->
         [kind |-> "loadMealPlans", phase |-> "plans", attached |-> TRUE]

\* The tab is mounted.
TabMounted(tab) == IF tab = "graphs" THEN EmptyBag ELSE Effect(LoadTask(tab))

\* The tab stays mounted and gets another user object: its effect, which
\* depends on [user], runs again.
UserChanged(tab) == IF tab = "graphs" THEN EmptyBag ELSE One(LoadTask(tab))

----------------------------------------------------------------------------
(* App and OnboardingWizard *)

\* steps.length - 1, the index of the Review step.
LastStep == 4

\* A getCurrentUser that takes the first profile of the createdAt index.
getCurrentUser_First(st) ==
  IF st.userProfiles = <<>> THEN NoUser
  ELSE LET profiles == st.userProfiles
           first == CHOOSE i \in DOMAIN profiles :
                      \A j \in DOMAIN profiles :
                        \/ profiles[j].createdAt > profiles[i].createdAt
                        \/ /\ profiles[j].createdAt = profiles[i].createdAt
                           /\ j >= i
       IN  profiles[first]

\* dbHelpers.getCurrentUser: orderBy('createdAt').last(), the last profile in
\* the order of the createdAt index (equal keys are ordered by primary key),
\* undefined if there is none.
getCurrentUser(st) ==
  IF st.userProfiles = <<>> THEN NoUser
  ELSE LET profiles == st.userProfiles
           last == CHOOSE i \in DOMAIN profiles :
                     \A j \in DOMAIN profiles :
                       \/ profiles[j].createdAt < profiles[i].createdAt
                       \/ /\ profiles[j].createdAt = profiles[i].createdAt
                          /\ j <= i
       IN  profiles[last]

\* App renders the wizard.
WizardShown == ~isLoading /\ (showOnboarding \/ currentUser = NoUser)

\* App renders the header, the active tab and the bottom navigation.
TabsShown == ~isLoading /\ ~WizardShown

\* The calls started when App has rendered again: the active tab is mounted
\* if the tabs were not shown before, and gets a new user object otherwise.
TabEffects(wasShown, isShown, tab) ==
  IF ~isShown THEN EmptyBag
  ELSE IF wasShown THEN UserChanged(tab) ELSE TabMounted(tab)

\* The wizard renders its form and navigation, not the submitting screen.
FormShown == WizardShown /\ ~isSubmitting

\* The step content with key `step` is mounted.
StepShown(step) == FormShown /\ displayedStep = step

canProceed(step, data) ==
  CASE step = 0 -> Len(Trim(data.name)) > 0
    [] step = 1 -> data.age > 0 /\ data.weight > 0 /\ data.height > 0
    [] step \in {2, 3, 4} -> TRUE
    [] OTHER -> FALSE

\* renderStep, case 4: every render of the form with currentStep on the
\* Review step passes the form data to the engine and shows the plan.  What
\* is rendered is a function of the state.
renderStep ==
  IF FormShown /\ currentStep = LastStep
  THEN [tempProfile |-> formData, plan |-> createPersonalizedPlan(formData)]
  ELSE NoResult

\* An initializeApp whose setIsLoading(false) is the last statement of the try
\* block instead of a finally block.
InitializeApp_NoFinally ==
  /\ BagIn(InitTask, tasks)
  /\ \E opened \in BOOLEAN :
       LET user == getCurrentUser(store)
       IN  IF opened /\ user # NoUser
           THEN /\ currentUser' = user
                /\ UNCHANGED showOnboarding
                /\ isLoading' = FALSE
                /\ tasks' = (tasks (-) One(InitTask))
                             (+) TabEffects(TabsShown, ~showOnboarding, activeTab)
           ELSE /\ IF opened
                   THEN /\ showOnboarding' = TRUE
                        /\ isLoading' = FALSE
                        /\ UNCHANGED currentUser
                   ELSE UNCHANGED <<currentUser, showOnboarding, isLoading>>
                /\ tasks' = tasks (-) One(InitTask)
  /\ UNCHANGED <<activeTab, completed, wizardVars, tabVars, strictMode, clock,
                 reloads, store, indicatorVars, engineVars>>

\* A call of initializeApp runs to its end: db.open() and getCurrentUser()
\* resolve, or one of them rejects.
InitializeApp ==
  /\ BagIn(InitTask, tasks)
  /\ \E opened \in BOOLEAN :
       LET user == getCurrentUser(store)
       IN  IF opened /\ user # NoUser
           THEN /\ currentUser' = user
                /\ UNCHANGED showOnboarding
                /\ tasks' = (tasks (-) One(InitTask))
                             (+) TabEffects(TabsShown, ~showOnboarding, activeTab)
           ELSE /\ IF opened
                   THEN showOnboarding' = TRUE /\ UNCHANGED currentUser
                   ELSE UNCHANGED <<currentUser, showOnboarding>>
                /\ tasks' = tasks (-) One(InitTask)
  /\ isLoading' = FALSE
  /\ UNCHANGED <<activeTab, completed, wizardVars, tabVars, strictMode, clock,
                 reloads, store, indicatorVars, engineVars>>

handleInputChange(field, value) ==
  /\ formData' = [formData EXCEPT ![field] = value]
  /\ UNCHANGED <<currentStep, displayedStep, isSubmitting, pending,
                 appVars, tabVars, pageVars, store,
                 indicatorVars, engineVars>>

EditName ==
  /\ StepShown(0)
  /\ \E text \in NameTexts : handleInputChange("name", text)

EditGender ==
  /\ StepShown(0)
  /\ \E option \in GenderOptions : handleInputChange("gender", option)

EditAge ==
  /\ StepShown(1)
  /\ \E text \in AgeTexts : handleInputChange("age", OrZero(parseInt(text)))

EditWeight ==
  /\ StepShown(1)
  /\ \E text \in WeightTexts : handleInputChange("weight", OrZero(parseFloat(text)))

EditHeight ==
  /\ StepShown(1)
  /\ \E text \in HeightTexts : handleInputChange("height", OrZero(parseInt(text)))

SelectGoal ==
  /\ StepShown(2)
  /\ \E option \in GoalOptions : handleInputChange("fitnessAim", option)

EditLift ==
  /\ StepShown(3)
  /\ \E field \in LiftInputs, text \in LiftTexts :
       handleInputChange(field, OrZero(parseFloat(text)))

\* The Next button, shown before the last step and disabled by canProceed.
nextStep ==
  /\ FormShown
  /\ currentStep < LastStep
  /\ canProceed(currentStep, formData)
  /\ currentStep' = currentStep + 1
  /\ UNCHANGED <<displayedStep, formData, isSubmitting, pending,
                 appVars, tabVars, pageVars, store,
                 indicatorVars, engineVars>>

\* The Previous button, shown after the first step.
prevStep ==
  /\ FormShown
  /\ currentStep > 0
  /\ currentStep' = currentStep - 1
  /\ UNCHANGED <<displayedStep, formData, isSubmitting, pending,
                 appVars, tabVars, pageVars, store,
                 indicatorVars, engineVars>>

\* AnimatePresence mode="wait": the content of the step left stays mounted
\* until its exit transition (0.3 s) has ended, then the content of the
\* current step is mounted.
ExitComplete ==
  /\ FormShown
  /\ displayedStep # currentStep
  /\ displayedStep' = currentStep
  /\ UNCHANGED <<currentStep, formData, isSubmitting, pending,
                 appVars, tabVars, pageVars, store,
                 indicatorVars, engineVars>>

\* handleSubmit up to its await: the submitting screen replaces the form.
handleSubmit ==
  /\ FormShown
  /\ currentStep = LastStep
  /\ canProceed(currentStep, formData)
  /\ isSubmitting' = TRUE
  /\ pending' = [phase |-> "adding",
                 profile |-> formData @@ [createdAt |-> clock,
                                          updatedAt |-> clock]]
  /\ UNCHANGED <<currentStep, displayedStep, formData,
                 appVars, tabVars, pageVars, store,
                 indicatorVars, engineVars>>

\* db.userProfiles.add(profile) resolves: the key is written to the profile
\* and the timer of onComplete is started.
AddProfileResolves ==
  /\ pending.phase = "adding"
  /\ store' = AddRecord(store, "userProfiles", pending.profile)
  /\ pending' = [phase |-> "timer",
                 profile |-> store'.userProfiles[Len(store'.userProfiles)]]
  /\ UNCHANGED <<currentStep, displayedStep, formData, isSubmitting,
                 appVars, tabVars, pageVars,
                 indicatorVars, engineVars>>

\* A catch block that goes on to the completion timer.
AddProfileRejects_ArmsTimer ==
  /\ pending.phase = "adding"
  /\ pending' = [pending EXCEPT !.phase = "timer"]
  /\ UNCHANGED <<isSubmitting, currentStep, displayedStep, formData, appVars,
                 tabVars, pageVars, store, indicatorVars, engineVars>>

\* A catch block that also sends the wizard back to its first step.
AddProfileRejects_Restarts ==
  /\ pending.phase = "adding"
  /\ isSubmitting' = FALSE
  /\ pending' = [phase |-> "rejected"]
  /\ currentStep' = 0
  /\ displayedStep' = 0
  /\ UNCHANGED <<formData, appVars, tabVars, pageVars, store,
                 indicatorVars, engineVars>>

\* db.userProfiles.add(profile) rejects: the catch block shows the form again
\* and handleSubmit returns.
AddProfileRejects ==
  /\ pending.phase = "adding"
  /\ isSubmitting' = FALSE
  /\ pending' = [phase |-> "rejected"]
  /\ displayedStep' = currentStep
  /\ UNCHANGED <<currentStep, formData, appVars, tabVars, pageVars, store,
                 indicatorVars, engineVars>>

\* A handler that sets the user and leaves showOnboarding as it is.
handleOnboardingComplete_KeepsFlag ==
  /\ pending.phase = "timer"
  /\ currentUser' = pending.profile
  /\ completed' = Append(completed, pending.profile)
  /\ WizardMounted
  /\ tasks' = tasks (+) TabEffects(TabsShown, ~isLoading /\ ~showOnboarding,
                                   activeTab)
  /\ UNCHANGED <<isLoading, showOnboarding, activeTab, tabVars, strictMode,
                 clock, reloads, store, indicatorVars, engineVars>>

\* The timer fires: onComplete(profile) is App.handleOnboardingComplete; the
\* wizard is unmounted and its state discarded.
handleOnboardingComplete ==
  /\ pending.phase = "timer"
  /\ currentUser' = pending.profile
  /\ showOnboarding' = FALSE
  /\ completed' = Append(completed, pending.profile)
  /\ WizardMounted
  /\ tasks' = tasks (+) TabEffects(TabsShown, ~isLoading, activeTab)
  /\ UNCHANGED <<isLoading, activeTab, tabVars, strictMode, clock, reloads,
                 store, indicatorVars, engineVars>>

----------------------------------------------------------------------------
(* The tabbed interface *)

Tabs == {"dashboard", "workouts", "meals", "graphs"}

DashboardShown == TabsShown /\ activeTab = "dashboard"

PlannerShown == TabsShown /\ activeTab = "workouts"

MealPlannerShown == TabsShown /\ activeTab = "meals"

\* A button of the bottom navigation; the tab left is unmounted and its
\* state discarded, the tab entered is mounted with its initial state.
setActiveTab ==
  /\ TabsShown
  /\ \E tab \in Tabs \ {activeTab} :
       /\ BagCardinality(tasks) + BagCardinality(TabMounted(tab)) <= MaxTasks
       /\ activeTab' = tab
       /\ tasks' = Detached(tasks) (+) TabMounted(tab)
  /\ TabsMounted
  /\ UNCHANGED <<isLoading, currentUser, showOnboarding, completed, wizardVars,
                 strictMode, clock, reloads, store, indicatorVars, engineVars>>

\* db.workoutPlans.where('userId').equals(userId).toArray()
plansOf(st, userId) ==
  SelectSeq(st.workoutPlans, LAMBDA plan : plan.userId = userId)

----------------------------------------------------------------------------
(* Dashboard *)

\* new Date() with setHours(0, 0, 0, 0), and the same time a day later.
StartOfDay(time) == time - (time % 86400000)

NextDay(time) == StartOfDay(time) + 86400000

InRange(st, table, userId, startDate, endDate) ==
  SelectSeq(st[table], LAMBDA record : /\ record.userId = userId
                                       /\ record.date >= startDate
                                       /\ record.date <= endDate)

getWorkoutLogs(st, userId, startDate, endDate) ==
  InRange(st, "workoutLogs", userId, startDate, endDate)

getMealLogs(st, userId, startDate, endDate) ==
  InRange(st, "mealLogs", userId, startDate, endDate)

getProgressEntries(st, userId, startDate, endDate) ==
  InRange(st, "progressEntries", userId, startDate, endDate)

\* dbHelpers.getTodayData when its three queries resolve.
getTodayData(st, userId) ==
  LET today == StartOfDay(clock)
      tomorrow == NextDay(clock)
  IN  [workoutLogs |-> getWorkoutLogs(st, userId, today, tomorrow),
       mealLogs |-> getMealLogs(st, userId, today, tomorrow),
       progressEntries |-> getProgressEntries(st, userId, today, tomorrow)]

\* Today's Mission shows COMPLETED, otherwise PENDING with the button.
hasCompletedWorkout ==
  /\ todayData # NoResult
  /\ \E i \in DOMAIN todayData.workoutLogs : todayData.workoutLogs[i].completed

\* The WorkoutLog record markWorkoutComplete builds.
WorkoutLogOf(user, plan) ==
  [userId |-> user.id,
   workoutPlanId |-> plan.id,
   date |-> StartOfDay(clock),
   exercises |-> [i \in DOMAIN plan.exercises |->
                    [exerciseId |-> plan.exercises[i].id,
                     sets |-> <<[reps |-> 0, weight |-> 0, completed |-> TRUE]>>]],
   completed |-> TRUE,
   createdAt |-> clock]

\* Workout logs added in one behaviour.
MaxLogs == 1

\* loadDashboardData: dbHelpers.getTodayData resolves.
GetTodayDataResolves ==
  /\ \E t \in Waiting("loadDashboardData", "getTodayData") :
       /\ tasks' = (tasks (-) One(t)) (+) One([t EXCEPT !.phase = "workoutPlans"])
       /\ IF t.attached
          THEN todayData' = getTodayData(store, currentUser.id)
          ELSE UNCHANGED todayData
  /\ UNCHANGED <<currentWorkoutPlan, dashboardLoading, markCall, appVars,
                 wizardVars, plannerVars, mealVars, strictMode, clock, reloads,
                 store, indicatorVars, engineVars>>

\* loadDashboardData: dbHelpers.getTodayData rejects; catch and finally.
GetTodayDataRejects ==
  /\ \E t \in Waiting("loadDashboardData", "getTodayData") :
       /\ tasks' = tasks (-) One(t)
       /\ IF t.attached
          THEN /\ dashboardLoading' = FALSE
               /\ markCall' = IF t.refresh THEN "failed" ELSE markCall
          ELSE UNCHANGED <<dashboardLoading, markCall>>
  /\ UNCHANGED <<todayData, currentWorkoutPlan, appVars, wizardVars,
                 plannerVars, mealVars, strictMode, clock, reloads, store,
                 indicatorVars, engineVars>>

\* loadDashboardData: the query of the user's workout plans resolves.
DashboardPlansResolve ==
  /\ \E t \in Waiting("loadDashboardData", "workoutPlans") :
       /\ tasks' = tasks (-) One(t)
       /\ IF t.attached
          THEN LET workoutPlans == plansOf(store, currentUser.id)
               IN  /\ currentWorkoutPlan' = IF Len(workoutPlans) > 0
                                            THEN workoutPlans[1]
                                            ELSE currentWorkoutPlan
                   /\ dashboardLoading' = FALSE
                   /\ markCall' = IF t.refresh THEN "returned" ELSE markCall
          ELSE UNCHANGED <<currentWorkoutPlan, dashboardLoading, markCall>>
  /\ UNCHANGED <<todayData, appVars, wizardVars, plannerVars, mealVars,
                 strictMode, clock, reloads, store, indicatorVars, engineVars>>

\* loadDashboardData: the query of the user's workout plans rejects.
DashboardPlansReject ==
  /\ \E t \in Waiting("loadDashboardData", "workoutPlans") :
       /\ tasks' = tasks (-) One(t)
       /\ IF t.attached
          THEN /\ dashboardLoading' = FALSE
               /\ markCall' = IF t.refresh THEN "failed" ELSE markCall
          ELSE UNCHANGED <<dashboardLoading, markCall>>
  /\ UNCHANGED <<todayData, currentWorkoutPlan, appVars, wizardVars,
                 plannerVars, mealVars, strictMode, clock, reloads, store,
                 indicatorVars, engineVars>>

\* The Mark as Complete button, up to the await of db.workoutLogs.add; the
\* call returns at once when there is no current workout plan.
markWorkoutComplete ==
  /\ DashboardShown
  /\ ~dashboardLoading
  /\ ~hasCompletedWorkout
  /\ markCall # "running"
  /\ IF currentWorkoutPlan = NoResult
     THEN /\ markCall' = "returned"
          /\ UNCHANGED tasks
     ELSE /\ BagCardinality(tasks) < MaxTasks
          /\ Len(store.workoutLogs)
               + Cardinality(Waiting("markWorkoutComplete", "add")) < MaxLogs
          /\ markCall' = "running"
          /\ tasks' = tasks (+) One([kind |-> "markWorkoutComplete",
                                     phase |-> "add", attached |-> TRUE,
                                     workoutLog |->
                                       WorkoutLogOf(currentUser, currentWorkoutPlan)])
  /\ UNCHANGED <<todayData, currentWorkoutPlan, dashboardLoading, appVars,
                 wizardVars, plannerVars, mealVars, strictMode, clock, reloads,
                 store, indicatorVars, engineVars>>

\* db.workoutLogs.add resolves; markWorkoutComplete calls loadDashboardData.
AddWorkoutLogResolves ==
  /\ \E t \in Waiting("markWorkoutComplete", "add") :
       /\ store' = AddRecord(store, "workoutLogs", t.workoutLog)
       /\ tasks' = (tasks (-) One(t))
                    (+) (IF t.attached
                         THEN One([kind |-> "loadDashboardData",
                                   phase |-> "getTodayData",
                                   attached |-> TRUE, refresh |-> TRUE])
                         ELSE EmptyBag)
  /\ UNCHANGED <<dashboardVars, appVars, wizardVars, plannerVars, mealVars,
                 strictMode, clock, reloads, indicatorVars, engineVars>>

\* db.workoutLogs.add rejects; the catch block of markWorkoutComplete.
AddWorkoutLogRejects ==
  /\ \E t \in Waiting("markWorkoutComplete", "add") :
       /\ tasks' = tasks (-) One(t)
       /\ markCall' = IF t.attached THEN "failed" ELSE markCall
  /\ UNCHANGED <<todayData, currentWorkoutPlan, dashboardLoading, appVars,
                 wizardVars, plannerVars, mealVars, strictMode, clock, reloads,
                 store, indicatorVars, engineVars>>

----------------------------------------------------------------------------
(* WorkoutPlanner *)

\* Exercises added to one plan in a behaviour.
MaxAdded == 1

\* Date.now() at the calls of addExercise.
Timestamps == {1000, 1001}

\* The exercise the add form hands to addExercise.
NewExercises ==
  {[name |-> "Barbell Curl", sets |-> 3, reps |-> "10", weight |-> Num(20),
    restTime |-> 60]}

\* The cards of the displayed list whose edit button is used, by index.
EditedCards == {0, 1}

\* The number of sets typed into the edit form.
EditedSets == {7}

\* loadWorkoutPlans: the query of the user's plans resolves.  Without a plan
\* createDefaultPlan runs up to its await of db.workoutPlans.add.
loadWorkoutPlans ==
  /\ \E t \in Waiting("loadWorkoutPlans", "plans") :
     \E personalizedPlan \in {createPersonalizedPlan(currentUser)} :
       LET plans == plansOf(store, currentUser.id)
           workoutProgram == personalizedPlan.workoutProgram
       IN  IF Len(plans) = 0
           THEN /\ tasks' = (tasks (-) One(t)) (+) One([t EXCEPT !.phase = "add"])
                /\ workoutDays' = IF t.attached THEN workoutProgram.workouts
                                  ELSE workoutDays
                /\ UNCHANGED <<selectedPlan, plannerLoading>>
           ELSE /\ tasks' = tasks (-) One(t)
                /\ IF t.attached
                   THEN /\ selectedPlan' = plans[1]
                        /\ workoutDays' = workoutProgram.workouts
                        /\ plannerLoading' = FALSE
                   ELSE UNCHANGED <<selectedPlan, workoutDays, plannerLoading>>
  /\ UNCHANGED <<editingExercise, lastSaved, appVars, wizardVars,
                 dashboardVars, mealVars, strictMode, clock, reloads, store,
                 indicatorVars, engineVars>>

\* loadWorkoutPlans: the query rejects; catch and finally.
loadWorkoutPlansRejects ==
  /\ \E t \in Waiting("loadWorkoutPlans", "plans") :
       /\ tasks' = tasks (-) One(t)
       /\ plannerLoading' = IF t.attached THEN FALSE ELSE plannerLoading
  /\ UNCHANGED <<selectedPlan, workoutDays, editingExercise, lastSaved,
                 appVars, wizardVars, dashboardVars, mealVars, strictMode,
                 clock, reloads, store, indicatorVars, engineVars>>

\* createDefaultPlan: db.workoutPlans.add resolves; then the finally block
\* of loadWorkoutPlans.
createDefaultPlan ==
  /\ \E t \in Waiting("loadWorkoutPlans", "add") :
     \E personalizedPlan \in {createPersonalizedPlan(currentUser)} :
       /\ store' = AddRecord(store, "workoutPlans",
                             WorkoutPlanOf(currentUser.id,
                                           personalizedPlan.workoutProgram))
       /\ tasks' = tasks (-) One(t)
       /\ IF t.attached
          THEN /\ selectedPlan' = store'.workoutPlans[Len(store'.workoutPlans)]
               /\ plannerLoading' = FALSE
          ELSE UNCHANGED <<selectedPlan, plannerLoading>>
  /\ UNCHANGED <<workoutDays, editingExercise, lastSaved, appVars, wizardVars,
                 dashboardVars, mealVars, strictMode, clock, reloads,
                 indicatorVars, engineVars>>

\* createDefaultPlan: db.workoutPlans.add rejects; its catch block, then the
\* finally block of loadWorkoutPlans.
createDefaultPlanRejects ==
  /\ \E t \in Waiting("loadWorkoutPlans", "add") :
       /\ tasks' = tasks (-) One(t)
       /\ plannerLoading' = IF t.attached THEN FALSE ELSE plannerLoading
  /\ UNCHANGED <<selectedPlan, workoutDays, editingExercise, lastSaved,
                 appVars, wizardVars, dashboardVars, mealVars, strictMode,
                 clock, reloads, store, indicatorVars, engineVars>>

\* The plan content, with the exercise list of the selected day (the first).
ExercisesShown ==
  /\ PlannerShown
  /\ ~plannerLoading
  /\ selectedPlan # NoUser

\* getCurrentDayExercises
getCurrentDayExercises ==
  IF workoutDays = <<>> THEN <<>> ELSE workoutDays[1].exercises

addExercise ==
  /\ ExercisesShown
  /\ editingExercise = NoResult
  /\ Len(selectedPlan.exercises) < Len(getCurrentDayExercises) + MaxAdded
  /\ \E exercise \in NewExercises, now \in Timestamps :
       LET updatedExercises ==
             Append(selectedPlan.exercises, [id |-> now] @@ exercise)
       IN  /\ store' = UpdateRecord(store, "workoutPlans", selectedPlan.id,
                                    [exercises |-> updatedExercises])
           /\ selectedPlan' = [selectedPlan EXCEPT !.exercises = updatedExercises]
  /\ UNCHANGED <<workoutDays, plannerLoading, editingExercise, lastSaved,
                 appVars, wizardVars, dashboardVars, mealVars, pageVars,
                 indicatorVars, engineVars>>

\* The edit button of the exercise card at `index` of the displayed list.
editExercise ==
  /\ ExercisesShown
  /\ editingExercise = NoResult
  /\ \E index \in EditedCards \cap (0 .. Len(getCurrentDayExercises) - 1) :
       LET exercise == getCurrentDayExercises[index + 1]
       IN  editingExercise' =
             [id |-> index,
              name |-> exercise.name,
              sets |-> exercise.sets,
              reps |-> exercise.reps,
              weight |-> IF "weight" \in DOMAIN exercise
                         THEN exercise.weight ELSE Num(0),
              restTime |-> exercise.restTime]
  /\ UNCHANGED <<selectedPlan, workoutDays, plannerLoading, lastSaved, appVars,
                 wizardVars, dashboardVars, mealVars, pageVars, store,
                 indicatorVars, engineVars>>

\* The Cancel button of the exercise form, or a click on the overlay.
cancelEdit ==
  /\ ExercisesShown
  /\ editingExercise # NoResult
  /\ editingExercise' = NoResult
  /\ UNCHANGED <<selectedPlan, workoutDays, plannerLoading, lastSaved, appVars,
                 wizardVars, dashboardVars, mealVars, pageVars, store,
                 indicatorVars, engineVars>>

\* useState of ExerciseForm for the exercise being edited.
ExerciseFormData(exercise) ==
  [id |-> exercise.id,
   name |-> exercise.name,
   sets |-> IF exercise.sets = 0 THEN 3 ELSE exercise.sets,
   reps |-> IF exercise.reps = "" THEN "8-12" ELSE exercise.reps,
   weight |-> exercise.weight,
   restTime |-> IF exercise.restTime = 0 THEN 120 ELSE exercise.restTime]

\* selectedPlan.exercises.map(ex => ex.id === exerciseId ? {...ex, ...updates} : ex)
MapExercises(exercises, exerciseId, updates) ==
  [i \in DOMAIN exercises |->
     IF exercises[i].id = exerciseId THEN updates @@ exercises[i]
     ELSE exercises[i]]

\* The edit form is saved with another number of sets: onSave calls
\* updateExercise(editingExercise.id, formData) and closes the form.
updateExercise ==
  /\ ExercisesShown
  /\ editingExercise # NoResult
  /\ \E sets \in EditedSets :
       LET updates == [ExerciseFormData(editingExercise) EXCEPT !.sets = sets]
           updatedExercises ==
             MapExercises(selectedPlan.exercises, editingExercise.id, updates)
       IN  /\ store' = UpdateRecord(store, "workoutPlans", selectedPlan.id,
                                    [exercises |-> updatedExercises])
           /\ selectedPlan' = [selectedPlan EXCEPT !.exercises = updatedExercises]
           /\ lastSaved' = [index |-> editingExercise.id, exercise |-> updates]
  /\ editingExercise' = NoResult
  /\ UNCHANGED <<workoutDays, plannerLoading, appVars, wizardVars,
                 dashboardVars, mealVars, pageVars, indicatorVars, engineVars>>

----------------------------------------------------------------------------
(* MealPlanner *)

\* The sample meals of createDefaultPlan, without their ingredients and
\* macronutrients.
SampleMeals ==
  <<[id |-> 1, name |-> "Power Breakfast", mealType |-> "breakfast", calories |-> 566],
    [id |-> 2, name |-> "Elite Lunch", mealType |-> "lunch", calories |-> 628],
    [id |-> 3, name |-> "Victory Dinner", mealType |-> "dinner", calories |-> 690],
    [id |-> 4, name |-> "Recovery Snack", mealType |-> "snack", calories |-> 347]>>

\* The MealPlan record of MealPlanner.createDefaultPlan.
MealPlanOf(userId, nutrition) ==
  [userId |-> userId,
   name |-> "Personalized Meal Plan",
   meals |-> SampleMeals,
   targetCalories |-> nutrition.totalCalories,
   targetProtein |-> nutrition.protein,
   targetCarbs |-> nutrition.carbs,
   targetFat |-> nutrition.fat]

\* db.mealPlans.where('userId').equals(userId).toArray()
mealPlansOf(st, userId) ==
  SelectSeq(st.mealPlans, LAMBDA plan : plan.userId = userId)

\* loadMealPlans: the query of the user's plans resolves.  Without a plan
\* createDefaultPlan runs up to its await of db.mealPlans.add.
loadMealPlans ==
  /\ \E t \in Waiting("loadMealPlans", "plans") :
       LET plans == mealPlansOf(store, currentUser.id)
       IN  IF Len(plans) = 0
           THEN /\ tasks' = (tasks (-) One(t)) (+) One([t EXCEPT !.phase = "add"])
                /\ UNCHANGED <<mealPlan, mealLoading>>
           ELSE /\ tasks' = tasks (-) One(t)
                /\ IF t.attached
                   THEN mealPlan' = plans[1] /\ mealLoading' = FALSE
                   ELSE UNCHANGED <<mealPlan, mealLoading>>
  /\ UNCHANGED <<appVars, wizardVars, plannerVars, dashboardVars, strictMode,
                 clock, reloads, store, indicatorVars, engineVars>>

\* loadMealPlans: the query rejects; catch and finally.
loadMealPlansRejects ==
  /\ \E t \in Waiting("loadMealPlans", "plans") :
       /\ tasks' = tasks (-) One(t)
       /\ mealLoading' = IF t.attached THEN FALSE ELSE mealLoading
  /\ UNCHANGED <<mealPlan, appVars, wizardVars, plannerVars, dashboardVars,
                 strictMode, clock, reloads, store, indicatorVars, engineVars>>

\* MealPlanner.createDefaultPlan: db.mealPlans.add resolves; then the finally
\* block of loadMealPlans.
createDefaultMealPlan ==
  /\ \E t \in Waiting("loadMealPlans", "add") :
     \E personalizedPlan \in {createPersonalizedPlan(currentUser)} :
       /\ store' = AddRecord(store, "mealPlans",
                             MealPlanOf(currentUser.id,
                                        personalizedPlan.nutritionPlan))
       /\ tasks' = tasks (-) One(t)
       /\ IF t.attached
          THEN /\ mealPlan' = store'.mealPlans[Len(store'.mealPlans)]
               /\ mealLoading' = FALSE
          ELSE UNCHANGED <<mealPlan, mealLoading>>
  /\ UNCHANGED <<appVars, wizardVars, plannerVars, dashboardVars, strictMode,
                 clock, reloads, indicatorVars, engineVars>>

\* MealPlanner.createDefaultPlan: db.mealPlans.add rejects.
createDefaultMealPlanRejects ==
  /\ \E t \in Waiting("loadMealPlans", "add") :
       /\ tasks' = tasks (-) One(t)
       /\ mealLoading' = IF t.attached THEN FALSE ELSE mealLoading
  /\ UNCHANGED <<mealPlan, appVars, wizardVars, plannerVars, dashboardVars,
                 strictMode, clock, reloads, store, indicatorVars, engineVars>>

----------------------------------------------------------------------------
(* The page: time and reloads *)

\* Values of the clock in one behaviour.
MaxClock == 2

\* Page loads after the first in one behaviour.
MaxReloads == 2

\* Time passes.
Tick ==
  /\ clock < MaxClock
  /\ clock' = clock + 1
  /\ UNCHANGED <<appVars, wizardVars, tabVars, strictMode, tasks, reloads,
                 store, indicatorVars, engineVars>>

\* The page is loaded again: every component is constructed anew, the calls
\* of the page left are gone, the database stays.
Reload ==
  /\ reloads < MaxReloads
  /\ reloads' = reloads + 1
  /\ PageMounted
  /\ tasks' = Effect(InitTask)
  /\ UNCHANGED <<strictMode, clock, store, engineVars>>

----------------------------------------------------------------------------
(* OfflineStatusIndicator *)

\* The delay of the hide timer, in seconds.
HideDelay == 3

\* Hide timers running at once.
MaxTimers == 3

\* The online event of window; the browser raises it when it was offline.
handleOnline ==
  /\ ~isOnline
  /\ Len(timers) < MaxTimers
  /\ isOnline' = TRUE
  /\ showNotification' = TRUE
  /\ timers' = Append(timers, HideDelay)
  /\ lastEvent' = "online"
  /\ UNCHANGED <<appVars, wizardVars, tabVars, pageVars, store, engineVars>>

\* The offline event of window; the browser raises it when it was online.
handleOffline ==
  /\ isOnline
  /\ isOnline' = FALSE
  /\ showNotification' = TRUE
  /\ lastEvent' = "offline"
  /\ UNCHANGED <<timers, appVars, wizardVars, tabVars, pageVars, store,
                 engineVars>>

\* A second passes; a timer that is due fires first.
SecondPasses ==
  /\ timers # <<>>
  /\ \A i \in DOMAIN timers : timers[i] > 0
  /\ timers' = [i \in DOMAIN timers |-> timers[i] - 1]
  /\ UNCHANGED <<isOnline, showNotification, lastEvent, appVars, wizardVars,
                 tabVars, pageVars, store, engineVars>>

\* The callback of a hide timer.
HideTimerFires ==
  /\ timers # <<>>
  /\ Head(timers) = 0
  /\ showNotification' = FALSE
  /\ timers' = Tail(timers)
  /\ UNCHANGED <<isOnline, lastEvent, appVars, wizardVars, tabVars, pageVars,
                 store, engineVars>>

----------------------------------------------------------------------------
(* The specifications of the application *)

\* The rounding sites at which some profile of the wizard meets a half.
FormProfiles ==
  {[InitialFormData EXCEPT !.weight = OrZero(parseFloat(w)),
                           !.height = OrZero(parseInt(h)),
                           !.age = OrZero(parseInt(a)),
                           !.gender = g, !.fitnessAim = f] :
     w \in WeightTexts, h \in HeightTexts, a \in AgeTexts,
     g \in GenderOptions, f \in GoalOptions}

FormTieSites == {s \in RoundSites : \E p \in FormProfiles : IsTie(unrounded(p)[s])}

\* The engine is not called directly.
EngineIdle ==
  /\ profile = ReferenceProfile
  /\ fpTie \in {[s \in RoundSites |-> IF s \in down THEN 0 ELSE 1] :
                  down \in SUBSET FormTieSites}
  /\ op = "none"
  /\ result = NoResult
  /\ args = DefaultArgs
  /\ firstPlan = NoResult
  /\ planCalls = 0

\* The page is loaded in either build: App is mounted and its effect runs.
PageLoaded ==
  /\ strictMode \in BOOLEAN
  /\ tasks = Effect(InitTask)
  /\ clock = 0
  /\ reloads = 0

\* Onboarding: the first load of the page, over an empty database.
AppInit ==
  /\ EngineIdle
  /\ store = EmptyStore
  /\ UIInit
  /\ PageLoaded

AppNext ==
  \/ InitializeApp
  \/ EditName
  \/ EditGender
  \/ EditAge
  \/ EditWeight
  \/ EditHeight
  \/ SelectGoal
  \/ EditLift
  \/ nextStep
  \/ prevStep
  \/ ExitComplete
  \/ handleSubmit
  \/ AddProfileResolves
  \/ AddProfileRejects
  \/ handleOnboardingComplete

AppSpec == AppInit /\ [][AppNext]_vars

\* Every call of initializeApp runs to its end.
AppLiveSpec == AppSpec /\ WF_vars(InitializeApp)

\* The profile of a user who went through onboarding with the default form.
OnboardedProfile ==
  [InitialFormData EXCEPT !.name = <<"A">>] @@ [createdAt |-> 0, updatedAt |-> 0]

\* The tabs: a page load over the database of an onboarded user, who has
\* opened the Workouts tab before or not.
TabsInit ==
  /\ EngineIdle
  /\ store \in {AddRecord(EmptyStore, "userProfiles", OnboardedProfile),
                StoredBy(OnboardedProfile)}
  /\ UIInit
  /\ PageLoaded

TabsNext ==
  \/ InitializeApp
  \/ setActiveTab
  \/ GetTodayDataResolves
  \/ GetTodayDataRejects
  \/ DashboardPlansResolve
  \/ DashboardPlansReject
  \/ markWorkoutComplete
  \/ AddWorkoutLogResolves
  \/ AddWorkoutLogRejects
  \/ loadWorkoutPlans
  \/ loadWorkoutPlansRejects
  \/ createDefaultPlan
  \/ createDefaultPlanRejects
  \/ addExercise
  \/ editExercise
  \/ cancelEdit
  \/ updateExercise
  \/ loadMealPlans
  \/ loadMealPlansRejects
  \/ createDefaultMealPlan
  \/ createDefaultMealPlanRejects

TabsSpec == TabsInit /\ [][TabsNext]_vars

\* Page loads over time: onboarding with the default form, and reloads.
LaunchNext ==
  \/ InitializeApp
  \/ EditName
  \/ nextStep
  \/ ExitComplete
  \/ handleSubmit
  \/ AddProfileResolves
  \/ AddProfileRejects
  \/ handleOnboardingComplete
  \/ Tick
  \/ Reload

LaunchSpec == AppInit /\ [][LaunchNext]_vars

\* The connectivity indicator, created online or offline.
IndicatorSpecInit ==
  /\ EngineIdle
  /\ store = EmptyStore
  /\ ComponentsInit
  /\ \E onLine \in BOOLEAN : IndicatorCreated(onLine)
  /\ PageLoaded

IndicatorNext ==
  \/ handleOnline
  \/ handleOffline
  \/ SecondPasses
  \/ HideTimerFires

IndicatorSpec == IndicatorSpecInit /\ [][IndicatorNext]_vars

----------------------------------------------------------------------------
(* Vocabulary of the properties *)

\* r is an integer nearest to the number x: |r - x| <= 1/2.
IsRoundOf(r, x) == 2 * Abs(r * x.d - x.n) <= x.d

Called(name) == op = name

\* The calorie factor and macro split table of the nutrition plan.
TableRow(aim) ==
  CASE aim = "lose_fat" ->
         [row |-> "lose_fat", factor |-> Rat(80, 100), split |-> <<40, 30, 30>>]
    [] aim = "gain_muscle" ->
         [row |-> "gain_muscle", factor |-> Rat(115, 100), split |-> <<25, 50, 25>>]
    [] OTHER ->
         [row |-> "maintain", factor |-> Rat(100, 100), split |-> <<30, 40, 30>>]

\* TDEE(profile) * factor, the calorie target before rounding.
CalorieTarget(p) == Times(calculateTDEE(p), TableRow(p.fitnessAim).factor)

SplitOf(plan) == <<plan.proteinPercent, plan.carbsPercent, plan.fatPercent>>

\* C1: after generateNutritionPlan, totalCalories is round(TDEE(profile) *
\* factor) with factor 0.80 for lose_fat, 1.15 for gain_muscle and 1.00 for
\* maintain or any other aim; TDEE 2759 with lose_fat gives 2207.
C1_TotalCalories ==
  Called("generateNutritionPlan") =>
    /\ IsRoundOf(result.totalCalories, CalorieTarget(profile))
    /\ (calculateTDEE(profile) = Num(2759) /\ profile.fitnessAim = "lose_fat")
         => result.totalCalories = 2207

C1_Witness ==
  /\ Called("generateNutritionPlan")
  /\ calculateTDEE(profile) = Num(2759)
  /\ profile.fitnessAim = "lose_fat"
  /\ result.totalCalories = 2207

\* C2 as claimed: the macro grams are computed from the returned, already
\* rounded totalCalories: protein = round(totalCalories * proteinPercent /
\* 100 / 4), carbs likewise with / 4, fat with / 9.
C2_MacrosFromRoundedTotal ==
  Called("generateNutritionPlan") =>
    /\ IsRoundOf(result.protein,
                 Rat(result.totalCalories * result.proteinPercent, 100 * 4))
    /\ IsRoundOf(result.carbs,
                 Rat(result.totalCalories * result.carbsPercent, 100 * 4))
    /\ IsRoundOf(result.fat,
                 Rat(result.totalCalories * result.fatPercent, 100 * 9))

\* C2 amended: the macro grams are computed from the calorie target before
\* rounding, calories = TDEE(profile) * factor: protein = round(calories *
\* proteinPercent / 100 / 4), carbs likewise with / 4, fat with / 9.
C2_MacrosFromUnroundedCalories ==
  Called("generateNutritionPlan") =>
    LET calories == CalorieTarget(profile)
    IN  /\ IsRoundOf(result.protein,
                     Rat(calories.n * result.proteinPercent, calories.d * 100 * 4))
        /\ IsRoundOf(result.carbs,
                     Rat(calories.n * result.carbsPercent, calories.d * 100 * 4))
        /\ IsRoundOf(result.fat,
                     Rat(calories.n * result.fatPercent, calories.d * 100 * 9))

\* A plan whose protein grams differ from those the rounded total would give.
C2_Witness ==
  /\ Called("generateNutritionPlan")
  /\ profile.weight > 0 /\ profile.height > 0 /\ profile.age > 0
  /\ ~IsRoundOf(result.protein,
                Rat(result.totalCalories * result.proteinPercent, 100 * 4))

PositiveProfile(p) ==
  /\ p.weight > 0 /\ p.height > 0 /\ p.age > 0
  /\ calculateTDEE(p).n > 0

EnergyOfMacros(plan) == plan.protein * 4 + plan.carbs * 4 + plan.fat * 9

\* C3: for a profile with positive weight, height, age and TDEE, the energy
\* of the macro grams, protein*4 + carbs*4 + fat*9, differs from
\* totalCalories by at most 9 kcal.
C3_EnergyInvariant ==
  (Called("generateNutritionPlan") /\ PositiveProfile(profile)) =>
    Abs(EnergyOfMacros(result) - result.totalCalories) <= 9

\* A positive profile whose macro grams do not reconstitute the total exactly.
C3_Witness ==
  /\ Called("generateNutritionPlan")
  /\ PositiveProfile(profile)
  /\ EnergyOfMacros(result) # result.totalCalories

\* C4: the percentages of the plan are the table constants of the profile's
\* fitnessAim (40/30/30, 25/50/25, 30/40/30), are integers summing to 100,
\* and identify the table row they came from.
C4_PercentTable ==
  Called("generateNutritionPlan") =>
    /\ SplitOf(result) = TableRow(profile.fitnessAim).split
    /\ \A i \in 1..3 : SplitOf(result)[i] \in 0..100
    /\ result.proteinPercent + result.carbsPercent + result.fatPercent = 100
    /\ \A aim \in FitnessAims :
         SplitOf(result) = TableRow(aim).split
           => TableRow(aim).row = TableRow(profile.fitnessAim).row

C4_Witness ==
  /\ Called("generateNutritionPlan")
  /\ profile.fitnessAim = "gain_muscle"
  /\ SplitOf(result) = <<25, 50, 25>>

Lifts == {"bench", "squat", "deadlift"}

\* The profile field holding the one-rep value of each assessed lift.
LiftField(lift) == IF lift = "bench" THEN "benchPress" ELSE lift

Tiers == {"beginner", "novice", "intermediate", "advanced"}

\* The order beginner < novice < intermediate < advanced.
Rank(tier) ==
  CASE tier = "beginner" -> 0
    [] tier = "novice" -> 1
    [] tier = "intermediate" -> 2
    [] tier = "advanced" -> 3

\* liftWeight / bodyWeight of the profile for one lift.
RatioOf(p, lift) == Divide(Num(LiftOrDefault(p, LiftField(lift))), Num(p.weight))

\* The highest tier whose threshold the ratio meets, beginner when none is met.
HighestTierMet(ratio, standard) ==
  LET met == {t \in Tiers : GreaterEq(ratio, standard[t])}
  IN  IF met = {} THEN "beginner"
      ELSE CHOOSE t \in met : \A u \in met : Rank(u) <= Rank(t)

\* C5: for bench, squat and deadlift the tier is the highest one whose
\* gender-specific threshold liftWeight / bodyWeight meets or exceeds
\* (equality counts: male, 80 kg, bench 120 is advanced), and beginner when
\* the ratio is below the novice threshold.
C5_HighestTierMet ==
  Called("assessStrengthLevel") =>
    /\ \A lift \in Lifts :
         LET ratio == RatioOf(profile, lift)
             standard == standards(profile.gender)[lift]
         IN  /\ result[lift] = HighestTierMet(ratio, standard)
             /\ ~GreaterEq(ratio, standard.novice) => result[lift] = "beginner"
    /\ (/\ profile.gender = "male" /\ profile.weight = 80
        /\ LiftOrDefault(profile, "benchPress") = 120) => result.bench = "advanced"

\* A ratio exactly on the advanced threshold: male, 80 kg, bench 120.
C5_Witness ==
  /\ Called("assessStrengthLevel")
  /\ profile.gender = "male" /\ profile.weight = 80
  /\ LiftOrDefault(profile, "benchPress") = 120
  /\ result.bench = "advanced"

\* C6: the overall tier is the minimum of the bench, squat and deadlift
\* tiers: never above a per-lift tier, equal to one of them, and advanced
\* only if all three are advanced.
C6_OverallIsMinimum ==
  Called("assessStrengthLevel") =>
    /\ \A lift \in Lifts : Rank(result.overall) <= Rank(result[lift])
    /\ \E lift \in Lifts : result.overall = result[lift]
    /\ result.overall = "advanced" =>
         \A lift \in Lifts : result[lift] = "advanced"

\* Three different per-lift tiers, the overall one being the lowest.
C6_Witness ==
  /\ Called("assessStrengthLevel")
  /\ result.bench = "advanced" /\ result.squat = "novice"
  /\ result.deadlift = "intermediate" /\ result.overall = "novice"

LiftUnset(p, lift) ==
  LiftField(lift) \notin DOMAIN p \/ p[LiftField(lift)] = 0

\* C7: whenever a lift is absent or 0, its tier and the overall tier are
\* beginner, whatever the gender, the body weight (0 and negative included)
\* and the other two lifts.
C7_UnsetLiftIsBeginner ==
  Called("assessStrengthLevel") =>
    \A lift \in Lifts :
      LiftUnset(profile, lift) =>
        result[lift] = "beginner" /\ result.overall = "beginner"

\* Body weight 0, one lift unset, the other two recorded and advanced.
C7_Witness ==
  /\ Called("assessStrengthLevel")
  /\ profile.weight = 0
  /\ \E lift \in Lifts :
       /\ LiftUnset(profile, lift)
       /\ \A other \in Lifts \ {lift} : result[other] = "advanced"
  /\ result.overall = "beginner"

Less(x, y) == x.n * y.d < y.n * x.d

Ascending(standard) ==
  /\ Less(standard.beginner, standard.novice)
  /\ Less(standard.novice, standard.intermediate)
  /\ Less(standard.intermediate, standard.advanced)

AssessedAs(p, gender) == assessStrengthLevel([p EXCEPT !.gender = gender])

\* C8: the thresholds of each lift ascend strictly in both gender sets and
\* each female/other threshold is below the male one; so for a positive body
\* weight and the same lifts no tier (per lift or overall) assessed for
\* female or other is below the one assessed for male, and female and other
\* always get the same assessment.
C8_GenderStandards ==
  /\ \A lift \in Lifts :
       /\ Ascending(standards("male")[lift])
       /\ Ascending(standards("female")[lift])
       /\ \A t \in Tiers :
            Less(standards("female")[lift][t], standards("male")[lift][t])
  /\ Called("assessStrengthLevel") =>
       /\ AssessedAs(profile, "female") = AssessedAs(profile, "other")
       /\ profile.gender = "male" /\ profile.weight > 0 =>
            \A k \in Lifts \cup {"overall"} :
              /\ Rank(AssessedAs(profile, "female")[k]) >= Rank(result[k])
              /\ Rank(AssessedAs(profile, "other")[k]) >= Rank(result[k])
       /\ profile.gender # "male" /\ profile.weight > 0 =>
            \A k \in Lifts \cup {"overall"} :
              Rank(result[k]) >= Rank(AssessedAs(profile, "male")[k])

\* The same lifts rate strictly higher overall for gender other than for male.
C8_Witness ==
  /\ Called("assessStrengthLevel")
  /\ profile.gender = "other" /\ profile.weight > 0
  /\ result = AssessedAs(profile, "female")
  /\ Rank(result.overall) > Rank(AssessedAs(profile, "male").overall)

\* The program type the fitnessAim selects.
TypeForAim(aim) ==
  CASE aim = "gain_muscle" -> "hypertrophy"
    [] aim = "lose_fat" -> "fat_loss"
    [] OTHER -> "strength"

Templates ==
  {getStrengthProgram(l) : l \in Tiers} \cup {getHypertrophyProgram(l) : l \in Tiers}
    \cup {getFatLossProgram(l) : l \in Tiers}

\* C9: generateWorkoutProgram returns the hypertrophy program for
\* gain_muscle, the fat_loss program for lose_fat and the strength program
\* for maintain or any other aim, always one of exactly three templates.
C9_ProgramByAim ==
  /\ Cardinality(Templates) = 3
  /\ \A t1, t2 \in Templates : t1.type = t2.type => t1 = t2
  /\ Called("generateWorkoutProgram") =>
       /\ result \in Templates
       /\ result.type = TypeForAim(profile.fitnessAim)

\* An aim outside the declared union gets the strength program.
C9_Witness ==
  /\ Called("generateWorkoutProgram")
  /\ profile.fitnessAim = "recomp"
  /\ result.type = "strength"
  /\ result.name = "Starting Strength Program"

\* The programs returned for the profiles of the coarse grid, by fitnessAim.
ProgramsForAim ==
  [aim \in FitnessAims |->
     {generateWorkoutProgram(q) : q \in {c \in CoarseProfiles : c.fitnessAim = aim}}]

\* C10: generateWorkoutProgram depends on fitnessAim only: every profile with
\* the same fitnessAim, whatever its weight, gender and lifts (and so its
\* strength level), gets the identical program: name, type, frequency,
\* duration and ordered days and exercises.
C10_ProgramDependsOnAimOnly ==
  Called("generateWorkoutProgram") =>
    ProgramsForAim[profile.fitnessAim] = {result}

\* Two profiles with the same aim and different gender, weight, lifts and
\* overall strength level, and the same program.
C10_Witness ==
  /\ Called("generateWorkoutProgram")
  /\ assessStrengthLevel(profile).overall = "beginner"
  /\ \E q \in CoarseProfiles :
       /\ q.fitnessAim = profile.fitnessAim
       /\ q.gender # profile.gender /\ q.weight # profile.weight
       /\ assessStrengthLevel(q).overall = "advanced"
       /\ generateWorkoutProgram(q) = result

PlanFields == {"workoutProgram", "nutritionPlan", "recommendations"}

StaticRecommendations ==
  <<"Track your workouts and adjust weights progressively.",
    "Stay consistent with your nutrition and training schedule.",
    "Take progress photos and measurements weekly.">>

\* C13: createPersonalizedPlan returns exactly six recommendation strings
\* in a fixed order.  The first names assessStrengthLevel(profile).overall
\* and workoutProgram.type, the second round(calculateTDEE(profile)), the
\* third nutritionPlan.protein, carbs and fat; the last three are the same
\* static sentences for every profile.
C13_Recommendations ==
  Called("createPersonalizedPlan") =>
    LET r == result.recommendations
        tdee == calculateTDEE(profile)
    IN  /\ Len(r) = 6
        /\ r[1] = "Based on your strength level ("
                    \o assessStrengthLevel(profile).overall
                    \o "), we've designed a " \o result.workoutProgram.type
                    \o " program."
        /\ \E n \in {Floor(tdee), Floor(tdee) + 1} :
             /\ IsRoundOf(n, tdee)
             /\ r[2] = "Your estimated TDEE is " \o ToString(n) \o " calories per day."
        /\ r[3] = "Target " \o ToString(result.nutritionPlan.protein)
                    \o "g protein, " \o ToString(result.nutritionPlan.carbs)
                    \o "g carbs, " \o ToString(result.nutritionPlan.fat)
                    \o "g fat daily."
        /\ SubSeq(r, 4, 6) = StaticRecommendations

\* A plan whose calorie target differs from the TDEE of its second sentence,
\* for a profile above the beginner tier.
C13_Witness ==
  /\ Called("createPersonalizedPlan")
  /\ profile.fitnessAim = "lose_fat"
  /\ assessStrengthLevel(profile).overall = "intermediate"
  /\ result.nutritionPlan.totalCalories < Floor(calculateTDEE(profile))
  /\ result.recommendations[1] =
       "Based on your strength level (intermediate), we've designed a fat_loss program."

\* The profile has a body weight below zero and no height, so that its BMR
\* is negative whatever its age and gender.
NegativeEnergy(p) == p.weight < 0 /\ p.height = 0

\* A JavaScript number of the model: a finite rational, an infinity or NaN.
IsNumber(x) == DOMAIN x = {"n", "d"} /\ x.n \in Int /\ x.d \in Nat

\* C14: no engine operation raises an error or rejects its input.  Whatever
\* the profile (body weight zero or negative, lifts absent, fitnessAim
\* outside the declared union) and whatever the arguments of calculateOneRM
\* (reps <= 0 included), the operation called has returned a value of its
\* return type; degenerate values are not clamped: a negative BMR gives
\* negative TDEE, calories and grams, a lift over body weight zero is rated
\* advanced, and calculateOneRM follows the formula for reps <= 0.
C14_NoRejection ==
  /\ Called("calculateBMR") => IsNumber(result)
  /\ Called("calculateTDEE") => IsNumber(result)
  /\ Called("calculateOneRM") => IsNumber(result)
  /\ Called("assessStrengthLevel") =>
       /\ DOMAIN result = Lifts \cup {"overall"}
       /\ \A f \in DOMAIN result : result[f] \in Tiers
  /\ Called("generateWorkoutProgram") => result \in Templates
  /\ Called("generateNutritionPlan") =>
       /\ \A f \in {"totalCalories", "protein", "carbs", "fat"} : result[f] \in Int
       /\ result.mealsPerDay = 4
  /\ Called("createPersonalizedPlan") =>
       /\ DOMAIN result = PlanFields
       /\ result.workoutProgram \in Templates
       /\ result.nutritionPlan.totalCalories \in Int
       /\ Len(result.recommendations) = 6
  /\ (Called("calculateBMR") /\ NegativeEnergy(profile)) => Less(result, Num(0))
  /\ (Called("calculateTDEE") /\ NegativeEnergy(profile)) => Less(result, Num(0))
  /\ (Called("generateNutritionPlan") /\ NegativeEnergy(profile)) =>
       result.totalCalories < 0 /\ result.protein < 0
  /\ (Called("createPersonalizedPlan") /\ NegativeEnergy(profile)) =>
       result.nutritionPlan.totalCalories < 0
  /\ (Called("assessStrengthLevel") /\ profile.weight = 0) =>
       \A lift \in Lifts :
         result[lift] = IF LiftOrDefault(profile, LiftField(lift)) > 0
                        THEN "advanced" ELSE "beginner"
  /\ (Called("calculateOneRM") /\ args[2] <= 0) =>
       Times(Num(30), result) = Num(args[1] * (30 + args[2]))

\* Degenerate inputs at work: a plan for a profile of negative energy need,
\* an aim outside the declared union and no recorded lift.
C14_Witness ==
  /\ Called("createPersonalizedPlan")
  /\ NegativeEnergy(profile)
  /\ profile.fitnessAim = "recomp"
  /\ "benchPress" \notin DOMAIN profile
  /\ result.nutritionPlan.fat < 0
  /\ result.workoutProgram.type = "strength"

\* Four times the Mifflin-St Jeor value: 6.25 * height is a multiple of 1/4.
FourTimesBMR(p) ==
  40 * p.weight + 25 * p.height - 20 * p.age
    + (IF p.gender = "male" THEN 20 ELSE 0 - 644)

\* C15: calculateBMR returns 10*weight + 6.25*height - 5*age + 5 for male
\* and 10*weight + 6.25*height - 5*age - 161 for female and for other, for
\* every weight, height and age, zero and negative included; male, 80 kg,
\* 180 cm, 30 years gives 1780.
C15_MifflinStJeor ==
  Called("calculateBMR") =>
    /\ Times(Num(4), result) = Num(FourTimesBMR(profile))
    /\ profile.gender = "other" =>
         result = calculateBMR([profile EXCEPT !.gender = "female"])
    /\ (profile.gender = "male" /\ profile.weight = 80 /\ profile.height = 180
          /\ profile.age = 30) => result = Num(1780)

\* The BMR of a profile of gender other with no weight and no height.
C15_Witness ==
  /\ Called("calculateBMR")
  /\ profile.gender = "other"
  /\ profile.weight = 0 /\ profile.height = 0 /\ profile.age = 30
  /\ result = Num(0 - 311)

\* C16: calculateTDEE(profile) is calculateBMR(profile) * 1.55 for every
\* profile, whatever its fitnessAim and lifts; BMR 1780 gives TDEE 2759.
C16_FixedMultiplier ==
  Called("calculateTDEE") =>
    /\ Times(Num(100), result) = Times(Num(155), calculateBMR(profile))
    /\ calculateBMR(profile) = Num(1780) => result = Num(2759)

\* The TDEE of the reference body with a fat loss aim.
C16_Witness ==
  /\ Called("calculateTDEE")
  /\ calculateBMR(profile) = Num(1780)
  /\ profile.fitnessAim = "lose_fat"
  /\ result = Num(2759)

\* C17: calculateOneRM(weight, reps) returns weight when reps = 1 and
\* weight * (1 + reps/30) for every other reps, that is 30 * result =
\* weight * (30 + reps); (100, 1) gives 100 and (100, 10) gives 400/3.
C17_Epley ==
  Called("calculateOneRM") =>
    LET weight == args[1]
        reps == args[2]
    IN  /\ reps = 1 => result = Num(weight)
        /\ reps # 1 => Times(Num(30), result) = Num(weight * (30 + reps))
        /\ (weight = 100 /\ reps = 1) => result = Num(100)
        /\ (weight = 100 /\ reps = 10) => result = Rat(400, 3)

C17_Witness ==
  /\ Called("calculateOneRM")
  /\ args = <<100, 10>>
  /\ result = Rat(400, 3)

\* C18: no engine operation reads or writes the local record store or
\* mutates its input: every engine call leaves each of the seven store
\* tables and the profile it was passed as they were, so that after any
\* sequence of calls the store still is what the callers persisted.
C18_EngineFrame ==
  [][/\ \A t \in Tables : store'[t] = store[t]
     /\ DOMAIN store' = Tables
     /\ profile' = profile]_vars

\* The engine has been called twice over a store that holds the profile and
\* the workout plan its callers saved.
C18_Witness ==
  /\ Called("createPersonalizedPlan")
  /\ planCalls = 2
  /\ store = StoredBy(profile)
  /\ Len(store.userProfiles) = 1 /\ Len(store.workoutPlans) = 1
  /\ store.workoutPlans[1].name = result.workoutProgram.name

\* age > 0, weight > 0 and height > 0
PositiveStats(p) == p.age > 0 /\ p.weight > 0 /\ p.height > 0

\* C19: invalid profiles never reach the engine through the application.
\* In every reachable state of the wizard a step after Personal Info implies
\* a non-empty name and a step after Physical Stats implies age, weight and
\* height above zero; so the profile the Review step passes to
\* createPersonalizedPlan, the profile being submitted, every stored profile
\* and the user handed to the planners have positive weight, height and age.
C19_InvalidProfilesNeverReachEngine ==
  /\ (WizardShown /\ currentStep > 0) => Len(Trim(formData.name)) > 0
  /\ (WizardShown /\ currentStep > 1) => PositiveStats(formData)
  /\ renderStep # NoResult => PositiveStats(renderStep.tempProfile)
  /\ pending.phase \in {"adding", "timer"} => PositiveStats(pending.profile)
  /\ \A i \in DOMAIN store.userProfiles : PositiveStats(store.userProfiles[i])
  /\ currentUser # NoUser => PositiveStats(currentUser)

\* The records of a table that are new or changed after a step.
ChangedRecords(table) ==
  {i \in DOMAIN store'[table] :
     i \notin DOMAIN store[table] \/ store'[table][i] # store[table][i]}

\* C20: the sync queue preserves changes for upload.  Every step that adds
\* or updates a record of a store table (the user profile, a workout plan or
\* its exercises) appends to syncQueue, for each such record, an entry that
\* names the table, the operation and the record and has synced = false.
C20_SyncQueuePreservesChanges ==
  [][\A table \in Tables \ {"syncQueue"} :
       \A i \in ChangedRecords(table) :
         \E k \in DOMAIN store'.syncQueue \ DOMAIN store.syncQueue :
           LET entry == store'.syncQueue[k]
           IN  /\ entry.tableName = table
               /\ entry.operation \in {"create", "update", "delete"}
               /\ entry.recordId = store'[table][i].id
               /\ entry.synced = FALSE]_vars

\* A completed workout log of the user dated today is in the store.
CompletedLogStored ==
  \E i \in DOMAIN store.workoutLogs :
    /\ store.workoutLogs[i].userId = currentUser.id
    /\ store.workoutLogs[i].completed
    /\ store.workoutLogs[i].date = StartOfDay(clock)

\* C21: whenever the dashboard has finished loading (today's data were read
\* from the store), shows today's mission as PENDING and the user clicks
\* Mark as Complete with the local store available, then once the call has
\* returned a workout log with completed = true dated today is stored for
\* that user and the dashboard shows COMPLETED, also for a user who has no
\* workout plan yet.
C21_MarkCompleteIsPersistedAndShown ==
  (DashboardShown /\ todayData # NoResult /\ markCall = "returned")
    => (CompletedLogStored /\ hasCompletedWorkout)

\* The stored workout plan with the given key.
StoredPlan(st, key) ==
  LET i == CHOOSE i \in DOMAIN st.workoutPlans : st.workoutPlans[i].id = key
  IN  st.workoutPlans[i]

\* The fields of an exercise that the form edits.
FieldsOf(exercise) ==
  [field \in {"name", "sets", "reps", "weight", "restTime"} |-> exercise[field]]

\* The step in which the edit form is saved.
SaveStep ==
  /\ editingExercise # NoResult
  /\ editingExercise' = NoResult
  /\ lastSaved' # lastSaved

\* C22: exercises can be edited.  When the edit form opened for the exercise
\* displayed at some position of the planner's list is saved, the exercise
\* at that position of the persisted workout plan and of the displayed list
\* carries the saved fields, and no other exercise of the persisted plan is
\* changed.
C22_EditUpdatesExactlyThatExercise ==
  [][SaveStep =>
       LET position == editingExercise.id + 1
           saved == FieldsOf(lastSaved'.exercise)
           before == StoredPlan(store, selectedPlan.id).exercises
           after == StoredPlan(store', selectedPlan.id).exercises
       IN  /\ position \in DOMAIN after
           /\ FieldsOf(after[position]) = saved
           /\ \A other \in DOMAIN before \ {position} :
                other \in DOMAIN after /\ after[other] = before[other]
           /\ getCurrentDayExercises'[position].sets = saved.sets]_vars

\* C23: for each user at most one default workout plan and at most one
\* default meal plan is ever created in the store, however the
\* load-then-create sequences of planner mounts (tab switches, effects run
\* twice under React.StrictMode) overlap.
C23_AtMostOneDefaultPlan ==
  \A i \in DOMAIN store.userProfiles :
    /\ Len(plansOf(store, store.userProfiles[i].id)) <= 1
    /\ Len(mealPlansOf(store, store.userProfiles[i].id)) <= 1

\* C24: in the connectivity indicator isOnline equals the kind of the most
\* recent online/offline event, and whenever the most recent event is
\* offline the status notification is visible, for every ordering of online
\* events, offline events and expiries of the 3-second hide timers started
\* by earlier online events.
C24_OfflineNotificationStays ==
  /\ lastEvent # "none" => (isOnline <=> lastEvent = "online")
  /\ lastEvent = "offline" => showNotification

\* ---------------------------------------------------------------------
\* C25: the wizard calls onComplete(profile) only after
\* db.userProfiles.add(profile) has succeeded for that same profile, and at
\* most once in its lifetime, whatever submit attempts failed before.
\* Every profile handed to onComplete is a record of userProfiles, and no
\* page has seen more than one call.
IsStored(userProfile) ==
  \E i \in DOMAIN store.userProfiles : store.userProfiles[i] = userProfile

C25_OnCompleteOnceAfterAdd ==
  /\ Len(completed) <= 1
  /\ \A i \in DOMAIN completed : IsStored(completed[i])
  /\ pending.phase = "timer" => (completed = <<>> /\ IsStored(pending.profile))

\* onComplete has been called with the profile the store holds.
C25_Witness ==
  /\ Len(completed) = 1
  /\ IsStored(completed[1])
  /\ currentUser = completed[1]
  /\ pending = Idle

\* ---------------------------------------------------------------------
\* C26: when db.userProfiles.add rejects during a submit, onComplete is not
\* called for that attempt, isSubmitting becomes false, and the wizard is
\* on the Review step with every form field as it was.
RejectStep == pending.phase = "adding" /\ pending'.phase = "rejected"

C26_FailedSubmitKeepsForm ==
  [][RejectStep =>
       /\ isSubmitting /\ ~isSubmitting'
       /\ FormShown'
       /\ currentStep' = LastStep /\ displayedStep' = LastStep
       /\ formData' = formData
       /\ completed' = completed /\ currentUser' = currentUser
       /\ store' = store]_vars

\* The form is back on Review after a rejected add.
C26_Witness ==
  /\ pending.phase = "rejected"
  /\ FormShown
  /\ currentStep = LastStep
  /\ completed = <<>>

\* ---------------------------------------------------------------------
\* C27: initialization always ends the loading state.  Whether db.open() and
\* getCurrentUser() resolve or reject, isLoading eventually is false, and
\* once false it never is true again.
C27_LoadingEnds ==
  /\ <>[](~isLoading)
  /\ [][~isLoading => ~isLoading']_vars

\* Initialization has failed (no user read, no onboarding requested) and the
\* loading screen is gone.
C27_Witness ==
  /\ ~isLoading
  /\ ~BagIn(InitTask, tasks)
  /\ currentUser = NoUser
  /\ ~showOnboarding

\* ---------------------------------------------------------------------
\* C28: the tabbed interface is displayed only when isLoading is false,
\* currentUser is set and showOnboarding is false; in every other state that
\* is not loading the wizard is displayed, also after a failed
\* initialization; and once onComplete has been called with a profile,
\* currentUser is that profile and the wizard is not displayed again.
C28_TabsOnlyForOnboardedUser ==
  /\ TabsShown => (~isLoading /\ currentUser # NoUser /\ ~showOnboarding)
  /\ (~isLoading /\ ~(currentUser # NoUser /\ ~showOnboarding)) => WizardShown
  /\ ~(TabsShown /\ WizardShown)
  /\ completed # <<>> => (TabsShown /\ currentUser = completed[1])

\* Under React.StrictMode both calls of initializeApp have ended, the
\* wizard has completed and the tabs are displayed.
C28_Witness ==
  /\ strictMode
  /\ tasks = EmptyBag \/ ~BagIn(InitTask, tasks)
  /\ completed # <<>>
  /\ TabsShown
  /\ ~showOnboarding

\* ---------------------------------------------------------------------
\* C29: once a profile is stored, an initialization that finds the database
\* available sets currentUser to the stored profile with the greatest
\* createdAt, the most recently created one, and does not show the wizard;
\* an initialization turns showOnboarding on only over an empty
\* userProfiles table.
\* A call of initializeApp ends in this step.
InitStep ==
  /\ CopiesIn(InitTask, tasks') < CopiesIn(InitTask, tasks)
  /\ reloads' = reloads

\* No stored profile was created after this one.
IsNewest(userProfile) ==
  /\ IsStored(userProfile)
  /\ \A i \in DOMAIN store.userProfiles :
       /\ store.userProfiles[i].createdAt <= userProfile.createdAt
       /\ store.userProfiles[i].createdAt = userProfile.createdAt
            => store.userProfiles[i].id <= userProfile.id

C29_NewestProfileIsCurrentUser ==
  [][InitStep =>
       /\ store.userProfiles # <<>> =>
            \/ IsNewest(currentUser') /\ showOnboarding' = showOnboarding
            \/ UNCHANGED <<currentUser, showOnboarding>>
       /\ (store.userProfiles # <<>> /\ currentUser = NoUser /\ ~showOnboarding
             /\ currentUser' # NoUser) => (TabsShown' /\ ~WizardShown')
       /\ (showOnboarding' /\ ~showOnboarding) => store.userProfiles = <<>>
       /\ (store.userProfiles = <<>> /\ currentUser' # currentUser) => FALSE]_vars

\* Two profiles created at different times are stored, the page has been
\* loaded again and initializeApp, not the wizard, has set currentUser to
\* the later one.
C29_Witness ==
  /\ reloads > 0
  /\ completed = <<>>
  /\ Len(store.userProfiles) >= 2
  /\ currentUser # NoUser
  /\ \E i \in DOMAIN store.userProfiles :
       store.userProfiles[i].createdAt < currentUser.createdAt
  /\ IsNewest(currentUser)
  /\ TabsShown

====
